---- MODULE Spec2Model ----
(***************************************************************************)
(* Model of the margarine semantic analysis (TyChecker) of the butter      *)
(* repository: the declaration passes of a block and the typing rules of   *)
(* single expression nodes.                                                *)
(*                                                                         *)
(* The declaration passes run under SpecDecl; the expression rules are     *)
(* pure functions of the node and of the results of its children, and run  *)
(* under SpecIf, SpecBinaryOp, SpecMatch and SpecCall, whose Init draws    *)
(* the node from bounded sets.  The walk of a block with its scopes runs   *)
(* under SpecBlock, chains of nested operators under SpecCascade, and the  *)
(* string interner (common::string_map) under SpecStringMap.               *)
(***************************************************************************)
EXTENDS Integers, Sequences, FiniteSets, TLC

VARIABLES
    pc,          \* position of the driver: which pass or evaluation comes next
    body,        \* the block under analysis (a sequence of declarations)
    namespaces,  \* TyChecker.namespaces: the namespace arena
    syms,        \* TyChecker.syms: the symbol arena
    tvars,       \* the type-variable slots of the symbol table
    node,        \* the expression node under evaluation
    result,      \* the AnalysisResult of the evaluated node (SpecStringMap: the last
                 \* call on the interner and what it returned)
    visited,     \* the child nodes evaluated, in order
    errors,      \* TyChecker.errors: the diagnostics, in order of report
    func_calls,  \* TypeInfo: the callee and generic bindings recorded per call
    string_map,  \* TyChecker.string_map: the string interner
    gen_map,     \* the GenMap: slots, freelist_head, count
    handles,     \* the handles the client of the GenMap holds, and those it had removed
    heap,        \* the allocator: ALLOC.free_lists, PTR and the memory
    live,        \* the allocations the client of the allocator holds
    input_manager \* the InputManager: keys, just_changed

vars == <<pc, body, namespaces, syms, tvars, node, result, visited, errors, func_calls,
          string_map, gen_map, handles, heap, live, input_manager>>

(***************************************************************************)
(* Bounds of the model.                                                    *)
(***************************************************************************)
MaxVars == 2
MaxArms == 3
MaxArgs == 2
MaxDecls == 3

(***************************************************************************)
(* StringMap: the string interner.  `vec` holds the interned strings in    *)
(* order of insertion, the index of a string being its position counted    *)
(* from 0; `map` takes the key of a string to its index.                   *)
(***************************************************************************)
MaxStrings == 3

\* The key of a string: its hash and its text; two keys are equal when both
\* are.  The hash is a 32-bit function of the bytes (FxHasher32) and so is not
\* injective: the model takes the length, under which strings of the inputs
\* collide ("ok" and "to", "int" and "foo").
HashStr(str) == [hash |-> Len(str), str |-> str]

\* Variant of insert (below) that never looks the string up.
insert_Push(sm, value) ==
    [sm |-> [vec |-> Append(sm.vec, value),
             map |-> (HashStr(value) :> Len(sm.vec)) @@ sm.map],
     index |-> Len(sm.vec)]

\* map.get_or_insert_with_key: the index under the key if there is one, else the
\* string is pushed and its position entered under the key.  The position fits
\* the u32 of a StringIndex: the calls keep vec.len() below u32::MAX.
insert(sm, value) ==
    LET key == HashStr(value)
    IN  IF key \in DOMAIN sm.map
        THEN [sm |-> sm, index |-> sm.map[key]]
        ELSE [sm |-> [vec |-> Append(sm.vec, value),
                      map |-> sm.map @@ (key :> Len(sm.vec))],
              index |-> Len(sm.vec)]

get(sm, index) == sm.vec[index + 1]

\* The built-in names with their reserved indices (StringMap::INIT_FUNC,
\* StringMap::TRUE, ...), in the order with_capacity inserts them.
BuiltIns ==
    << <<"_init", 0>>, <<"true", 1>>, <<"false", 2>>, <<"value", 3>>, <<"bool", 4>>,
       <<"str", 5>>, <<"int", 6>>, <<"float", 7>>, <<"any", 8>>, <<"ok", 9>>,
       <<"err", 10>>, <<"some", 11>>, <<"none", 12>> >>

\* The interner after construction; `ok` is whether every assert_eq! held.
with_capacity ==
    LET RECURSIVE inserted(_, _, _)
        inserted(sm, i, ok) ==
            IF i > Len(BuiltIns) THEN [sm |-> sm, ok |-> ok]
            ELSE LET r == insert(sm, BuiltIns[i][1])
                 IN  inserted(r.sm, i + 1, ok /\ r.index = BuiltIns[i][2])
    IN  inserted([vec |-> <<>>, map |-> [k \in {} |-> 0]], 1, TRUE)

(***************************************************************************)
(* The components beside the analyser, as constructed: the generational    *)
(* map (vendor/genmap), the allocator of the runtime (butter-runtime-api)  *)
(* and the input manager of the engine.  An Option is a sequence of at     *)
(* most one element.                                                       *)
(***************************************************************************)
MaxKeys == 2
Keys == 0 .. MaxKeys - 1

\* GenMap::default
GenMapDefault == [slots |-> <<>>, freelist_head |-> <<>>, count |-> 0]

\* The statics ALLOC and PTR of the allocator, and an empty memory
\* (MockMemory::new).
WallocNew == [free_lists |-> <<>>, PTR |-> 0, memory |-> <<>>]

\* InputManager::new
InputManagerNew == [keys |-> [k \in Keys |-> "Up"], just_changed |-> <<>>]

(***************************************************************************)
(* Sym: the type of an evaluated expression, a concrete symbol or a type   *)
(* variable backed by a slot of tvars.                                     *)
(***************************************************************************)
Ty(s) == [k |-> "ty", s |-> s, v |-> 0]
Var(i) == [k |-> "var", s |-> "", v |-> i]
Unset == [k |-> "unset", s |-> "", v |-> 0]

UNIT == Ty("unit")
ERROR == Ty("err")
NEVER == Ty("never")
BOOL == Ty("bool")
I64 == Ty("i64")
F64 == Ty("f64")
STR == Ty("str")

IntSyms == {"i64", "i32", "u64"}
FloatSyms == {"f64"}

AnalysisResult(ty, is_mut) == [ty |-> ty, is_mut |-> is_mut]
AnalysisError == AnalysisResult(ERROR, TRUE)
AnalysisNever == AnalysisResult(NEVER, TRUE)
NoResult == [ty |-> Unset, is_mut |-> FALSE]

\* Node ids: the node under evaluation and its children.
Self == <<"id", 0>>
Child(label) == <<label, 0>>
ChildAt(label, i) == <<label, i>>
Diag(n, kind, name) == [node |-> n, kind |-> kind, name |-> name]
\* An evaluated child, with the type bound for it where the parent binds one.
V(label) == [child |-> Child(label), binding |-> Unset]

\* A type variable is substituted at most once; every alias then sees the value.
RECURSIVE instance(_, _)
instance(tv, t) ==
    IF t.k = "var" /\ tv[t.v].val # Unset THEN instance(tv, tv[t.v].val) ELSE t

\* May a variable of literal kind sub stand for concrete symbol s ?
SubAccepts(sub, s) ==
    CASE sub = "integer" -> s \in IntSyms
      [] sub = "float" -> s \in FloatSyms
      [] OTHER -> TRUE

\* Sym::eq: structural equality, substituting an unresolved variable of either side.
eq(tv, a, b) ==
    LET x == instance(tv, a)
        y == instance(tv, b)
    IN  CASE x.k = "ty" /\ y.k = "ty" -> [ok |-> x = y, tvars |-> tv]
          [] x.k = "var" /\ y.k = "ty" ->
                IF SubAccepts(tv[x.v].sub, y.s)
                THEN [ok |-> TRUE, tvars |-> [tv EXCEPT ![x.v].val = y]]
                ELSE [ok |-> FALSE, tvars |-> tv]
          [] x.k = "ty" /\ y.k = "var" ->
                IF SubAccepts(tv[y.v].sub, x.s)
                THEN [ok |-> TRUE, tvars |-> [tv EXCEPT ![y.v].val = x]]
                ELSE [ok |-> FALSE, tvars |-> tv]
          [] OTHER ->
                IF x.v = y.v THEN [ok |-> TRUE, tvars |-> tv]
                ELSE IF tv[x.v].sub = "none"
                THEN [ok |-> TRUE, tvars |-> [tv EXCEPT ![x.v].val = y]]
                ELSE IF tv[y.v].sub = "none" \/ tv[y.v].sub = tv[x.v].sub
                THEN [ok |-> TRUE, tvars |-> [tv EXCEPT ![y.v].val = x]]
                ELSE [ok |-> FALSE, tvars |-> tv]

\* Sym::sym: the symbol of a type; a literal variable defaults, a free one fails.
sym(tv, t) ==
    LET x == instance(tv, t)
    IN  CASE x.k = "ty" -> [ok |-> TRUE, s |-> x.s, tvars |-> tv]
          [] tv[x.v].sub = "integer" ->
                [ok |-> TRUE, s |-> "i64", tvars |-> [tv EXCEPT ![x.v].val = I64]]
          [] tv[x.v].sub = "float" ->
                [ok |-> TRUE, s |-> "f64", tvars |-> [tv EXCEPT ![x.v].val = F64]]
          [] OTHER -> [ok |-> FALSE, s |-> "", tvars |-> tv]

is_err(tv, t) == instance(tv, t) = ERROR
is_never(tv, t) == instance(tv, t) = NEVER

(***************************************************************************)
(* Expr::If.  n.condition, n.body and n.else_block hold the results of the *)
(* child expressions; a missing else branch is NoResult.                   *)
(***************************************************************************)
Out(res, tv, errs, vis) == [res |-> res, tvars |-> tv, errors |-> errs, visited |-> vis]

\* Variant without the fallback of an ERROR or NEVER body to UNIT.
IfExprTail_KeepBottom(tv, n, value, errs, vis) ==
    LET noElse == n.else_block = NoResult
        ne == eq(tv, value, UNIT)
    IN  IF ~ne.ok /\ noElse
        THEN Out(AnalysisError, ne.tvars, errs \o <<Diag(Self, "IfMissingElse", "")>>, vis)
        ELSE Out(AnalysisResult(value, TRUE), ne.tvars, errs, vis)

IfExprTail(tv, n, value, errs, vis) ==
    LET noElse == n.else_block = NoResult
        value1 == IF noElse /\ (is_err(tv, value) \/ is_never(tv, value)) THEN UNIT ELSE value
        ne == eq(tv, value1, UNIT)
    IN  IF ~ne.ok /\ noElse
        THEN Out(AnalysisError, ne.tvars, errs \o <<Diag(Self, "IfMissingElse", "")>>, vis)
        ELSE Out(AnalysisResult(value1, TRUE), ne.tvars, errs, vis)

\* Variant that compares the branches even when the then-branch is ERROR or NEVER.
IfExprElse_AlwaysCompare(tv, n) ==
    LET value == n.body.ty
    IN  IF n.else_block = NoResult
        THEN IfExprTail(tv, n, value, <<>>, <<V("condition"), V("body")>>)
        ELSE LET vis == <<V("condition"), V("body"), V("else_block")>>
                 c == eq(tv, n.else_block.ty, value)
             IN  IF ~c.ok
                 THEN IfExprTail(c.tvars, n, value,
                                 <<Diag(Child("else_block"), "IfBodyAndElseMismatch", "")>>, vis)
                 ELSE IfExprTail(c.tvars, n, value, <<>>, vis)

IfExprElse(tv, n) ==
    LET value == n.body.ty
    IN  IF n.else_block = NoResult
        THEN IfExprTail(tv, n, value, <<>>, <<V("condition"), V("body")>>)
        ELSE LET vis == <<V("condition"), V("body"), V("else_block")>>
                 el == n.else_block.ty
             IN  IF is_err(tv, value) \/ is_never(tv, value)
                 THEN IfExprTail(tv, n, el, <<>>, vis)
                 ELSE LET c == eq(tv, el, value)
                      IN  IF ~c.ok
                          THEN IfExprTail(c.tvars, n, value,
                                          <<Diag(Child("else_block"), "IfBodyAndElseMismatch", "")>>, vis)
                          ELSE IfExprTail(c.tvars, n, value, <<>>, vis)

IfExpr(tv, n) ==
    LET cs == sym(tv, n.condition.ty)
        tv1 == cs.tvars
    IN  IF cs.ok /\ cs.s = "err" THEN Out(AnalysisError, tv1, <<>>, <<V("condition")>>)
        ELSE IF cs.ok /\ cs.s = "never" THEN Out(AnalysisNever, tv1, <<>>, <<V("condition")>>)
        ELSE LET cb == eq(tv1, n.condition.ty, BOOL)
             IN  IF ~cb.ok
                 THEN Out(AnalysisError, cb.tvars,
                          <<Diag(Self, "InvalidType", "bool")>>, <<V("condition")>>)
                 ELSE IfExprElse(cb.tvars, n)

(***************************************************************************)
(* The inputs of the expression specifications.                            *)
(***************************************************************************)
VarIds == 1 .. MaxVars
TVarTables == [VarIds -> [sub : {"none", "integer", "float"}, val : {Unset}]]
NoTVars == <<>>
Types == {UNIT, ERROR, NEVER, BOOL, I64, STR} \cup {Var(i) : i \in VarIds}
Results == {AnalysisResult(t, TRUE) : t \in Types}

NoNode == [kind |-> "none"]
NoBlock == <<>>

ExprIdle ==
    /\ body = NoBlock
    /\ namespaces = <<>>
    /\ syms = <<>>

IfNodes ==
    [kind : {"If"}, condition : Results, body : Results, else_block : Results \cup {NoResult}]

InitIf ==
    /\ pc = "expr"
    /\ ExprIdle
    /\ tvars \in TVarTables
    /\ node \in IfNodes
    /\ result = NoResult
    /\ visited = <<>>
    /\ errors = <<>>
    /\ func_calls = <<>>
    /\ string_map = with_capacity.sm
    /\ gen_map = GenMapDefault
    /\ handles = [live |-> {}, dead |-> {}]
    /\ heap = WallocNew
    /\ live = {}
    /\ input_manager = InputManagerNew

Finish(o) ==
    /\ pc' = "done"
    /\ result' = o.res
    /\ tvars' = o.tvars
    /\ errors' = errors \o o.errors
    /\ visited' = o.visited
    /\ func_calls' = IF "func_call" \in DOMAIN o THEN Append(func_calls, o.func_call)
                     ELSE func_calls
    /\ string_map' = string_map
    /\ gen_map' = gen_map
    /\ handles' = handles
    /\ heap' = heap
    /\ live' = live
    /\ input_manager' = input_manager
    /\ UNCHANGED <<body, namespaces, syms, node>>

EvalIf ==
    /\ pc = "expr"
    /\ node.kind = "If"
    /\ Finish(IfExpr(tvars, node))

SpecIf == InitIf /\ [][EvalIf]_vars

\* F applied to the value of e, e being evaluated once.
Once(e, F(_)) == CHOOSE r \in {F(x) : x \in {e}} : TRUE
Range(f) == {f[i] : i \in DOMAIN f}
Visited(label) == \E i \in DOMAIN visited : visited[i].child = Child(label)
Count(errs, kind) == Cardinality({i \in DOMAIN errs : errs[i].kind = kind})
Bottoms == {ERROR, NEVER}

\* C8: an if without else whose body was evaluated reports IfMissingElse iff the
\* (resolved) type of the body is none of UNIT, ERROR, NEVER; when it is one of
\* them nothing is reported and the if expression has type UNIT.
C8_IfMissingElse ==
    (pc = "done" /\ node.kind = "If" /\ node.else_block = NoResult
        /\ Visited("body")) =>
        LET bt == instance(tvars, node.body.ty)
        IN  /\ Count(errors, "IfMissingElse") = 1 <=> bt \notin {UNIT, ERROR, NEVER}
            /\ bt \notin {UNIT, ERROR, NEVER} =>
                    errors = <<Diag(Self, "IfMissingElse", "")>>
            /\ bt \in {UNIT, ERROR, NEVER} =>
                    errors = <<>> /\ instance(tvars, result.ty) = UNIT

C8_Witness ==
    /\ pc = "done" /\ node.kind = "If" /\ node.else_block = NoResult
    /\ node.condition.ty = BOOL /\ node.body.ty = I64
    /\ errors = <<Diag(Self, "IfMissingElse", "")>>

\* C9: with an else branch and a condition accepted as boolean, a then-branch of
\* type ERROR or NEVER gives the if the else branch's type without a mismatch;
\* otherwise a difference of the two branch types is reported as exactly one
\* IfBodyAndElseMismatch and the if has the then-branch's type.  A condition that
\* is not boolean (nor ERROR, NEVER) is reported as InvalidType expecting bool.
C9_IfElse ==
    (pc = "done" /\ node.kind = "If") =>
        LET th == instance(tvars, node.body.ty)
            el == instance(tvars, node.else_block.ty)
            cd == instance(tvars, node.condition.ty)
        IN  /\ cd \notin {ERROR, NEVER, BOOL} =>
                    /\ errors = <<Diag(Self, "InvalidType", "bool")>>
                    /\ result = AnalysisError
            /\ (node.else_block # NoResult /\ Visited("else_block")) =>
                    /\ cd = BOOL
                    /\ th \in Bottoms =>
                            errors = <<>> /\ instance(tvars, result.ty) = el
                    /\ th \notin Bottoms =>
                            /\ instance(tvars, result.ty) = th
                            /\ th # el =>
                                 errors = <<Diag(Child("else_block"), "IfBodyAndElseMismatch", "")>>
                            /\ th = el => errors = <<>>

C9_Witness ==
    /\ pc = "done" /\ node.kind = "If"
    /\ node.body.ty = I64 /\ node.else_block.ty = STR
    /\ Count(errors, "IfBodyAndElseMismatch") = 1 /\ result.ty = I64

(***************************************************************************)
(* Expr::BinaryOp.                                                         *)
(***************************************************************************)
BinaryOperator ==
    {"Add", "Sub", "Mul", "Div", "Rem",
     "BitshiftLeft", "BitshiftRight", "BitwiseAnd", "BitwiseOr", "BitwiseXor",
     "Eq", "Ne", "Gt", "Ge", "Lt", "Le"}

is_arith(op) ==
    CASE op \in {"BitshiftLeft", "BitshiftRight", "BitwiseAnd", "BitwiseOr", "BitwiseXor",
                 "Eq", "Ne", "Gt", "Ge", "Lt", "Le"} -> FALSE
      [] op \in {"Add", "Sub", "Mul", "Div", "Rem"} -> TRUE

\* Variant whose bitwise list misses BitwiseXor.
is_bw_NoXor(op) ==
    op \in {"BitshiftLeft", "BitshiftRight", "BitwiseAnd", "BitwiseOr"}

is_bw(op) ==
    CASE op \in {"Eq", "Ne", "Gt", "Ge", "Lt", "Le",
                 "Add", "Sub", "Mul", "Div", "Rem"} -> FALSE
      [] op \in {"BitshiftLeft", "BitshiftRight", "BitwiseAnd", "BitwiseOr",
                 "BitwiseXor"} -> TRUE

is_ocomp(op) ==
    CASE op \in {"Add", "Sub", "Mul", "Div", "Rem", "BitshiftLeft", "BitshiftRight",
                 "BitwiseAnd", "BitwiseOr", "BitwiseXor", "Eq", "Ne"} -> FALSE
      [] op \in {"Gt", "Ge", "Lt", "Le"} -> TRUE

is_ecomp(op) ==
    CASE op \in {"Add", "Sub", "Mul", "Div", "Rem", "BitshiftLeft", "BitshiftRight",
                 "BitwiseAnd", "BitwiseOr", "BitwiseXor", "Gt", "Ge", "Lt", "Le"} -> FALSE
      [] op \in {"Eq", "Ne"} -> TRUE

\* The capability flags of a symbol.
supports_arith(s) == s \in IntSyms \cup FloatSyms
supports_bw(s) == s \in IntSyms
supports_ord(s) == s \in IntSyms \cup FloatSyms
supports_eq(s) == s \in IntSyms \cup FloatSyms \cup {"bool", "str", "unit"}

BinaryOpResult(op, lhs) ==
    CASE op \in {"Add", "Sub", "Mul", "Div", "Rem", "BitshiftLeft", "BitshiftRight",
                 "BitwiseAnd", "BitwiseOr", "BitwiseXor"} -> lhs.ty
      [] op \in {"Eq", "Ne", "Gt", "Ge", "Lt", "Le"} -> BOOL

\* The validate closure and what follows it.
BinaryOpValidate(tv, n) ==
    LET vis == <<V("lhs"), V("rhs")>>
        e == eq(tv, n.lhs.ty, n.rhs.ty)
        ls == sym(e.tvars, n.lhs.ty)
        op == n.operator
    IN  IF ~e.ok
        THEN Out(AnalysisError, e.tvars, <<Diag(Self, "InvalidBinaryOp", "")>>, vis)
        ELSE IF ~ls.ok
        THEN Out(AnalysisError, ls.tvars, <<Diag(Self, "UnresolvedVar", "")>>, vis)
        ELSE IF /\ (IF is_arith(op) THEN supports_arith(ls.s) ELSE TRUE)
                /\ (IF is_bw(op) THEN supports_bw(ls.s) ELSE TRUE)
                /\ (IF is_ocomp(op) THEN supports_ord(ls.s) ELSE TRUE)
                /\ (IF is_ecomp(op) THEN supports_eq(ls.s) ELSE TRUE)
        THEN Out(AnalysisResult(BinaryOpResult(op, n.lhs), TRUE), ls.tvars, <<>>, vis)
        ELSE Out(AnalysisError, ls.tvars, <<Diag(Self, "InvalidBinaryOp", "")>>, vis)

BinaryOpExpr(tv, n) ==
    LET vis == <<V("lhs"), V("rhs")>>
        e0 == eq(tv, n.lhs.ty, n.rhs.ty)
        ls == sym(e0.tvars, n.lhs.ty)
        rs == sym(ls.tvars, n.rhs.ty)
    IN  IF ~ls.ok THEN Out(AnalysisError, ls.tvars, <<Diag(Self, "UnresolvedVar", "")>>, vis)
        ELSE IF ls.s = "err" THEN Out(AnalysisError, ls.tvars, <<>>, vis)
        ELSE IF ls.s = "never" THEN Out(AnalysisNever, ls.tvars, <<>>, vis)
        ELSE IF ~rs.ok THEN Out(AnalysisError, rs.tvars, <<Diag(Self, "UnresolvedVar", "")>>, vis)
        ELSE IF rs.s = "err" THEN Out(AnalysisError, rs.tvars, <<>>, vis)
        ELSE IF rs.s = "never" THEN Out(AnalysisNever, rs.tvars, <<>>, vis)
        ELSE BinaryOpValidate(rs.tvars, n)

BinaryOpNodes ==
    [kind : {"BinaryOp"}, operator : BinaryOperator, lhs : Results, rhs : Results]

InitBinaryOp ==
    /\ pc = "expr"
    /\ ExprIdle
    /\ tvars \in TVarTables
    /\ node \in BinaryOpNodes
    /\ result = NoResult
    /\ visited = <<>>
    /\ errors = <<>>
    /\ func_calls = <<>>
    /\ string_map = with_capacity.sm
    /\ gen_map = GenMapDefault
    /\ handles = [live |-> {}, dead |-> {}]
    /\ heap = WallocNew
    /\ live = {}
    /\ input_manager = InputManagerNew

EvalBinaryOp ==
    /\ pc = "expr"
    /\ node.kind = "BinaryOp"
    /\ Finish(BinaryOpExpr(tvars, node))

SpecBinaryOp == InitBinaryOp /\ [][EvalBinaryOp]_vars

Categories == {"arith", "bw", "ocomp", "ecomp"}
InCategory(op, c) ==
    CASE c = "arith" -> is_arith(op)
      [] c = "bw" -> is_bw(op)
      [] c = "ocomp" -> is_ocomp(op)
      [] c = "ecomp" -> is_ecomp(op)
Supports(s, c) ==
    CASE c = "arith" -> supports_arith(s)
      [] c = "bw" -> supports_bw(s)
      [] c = "ocomp" -> supports_ord(s)
      [] c = "ecomp" -> supports_eq(s)

\* C10: every binary operator is in exactly one of the four categories; with both
\* operands resolved to types other than ERROR and NEVER the expression is accepted
\* iff the operand types are equal after unification and the type supports the
\* operator's category, and otherwise exactly one InvalidBinaryOp is reported; an
\* accepted arithmetic or bitwise operator has the operand type, a comparison bool.
C10_BinaryOp ==
    /\ \A op \in BinaryOperator : Cardinality({c \in Categories : InCategory(op, c)}) = 1
    /\ (pc = "done" /\ node.kind = "BinaryOp") =>
        LET l == instance(tvars, node.lhs.ty)
            r == instance(tvars, node.rhs.ty)
            op == node.operator
        IN  (l.k = "ty" /\ r.k = "ty" /\ l \notin Bottoms /\ r \notin Bottoms) =>
                LET accepted == l = r /\ \A c \in Categories : InCategory(op, c) => Supports(l.s, c)
                IN  /\ accepted =>
                        /\ errors = <<>>
                        /\ instance(tvars, result.ty) =
                              (IF InCategory(op, "arith") \/ InCategory(op, "bw") THEN l ELSE BOOL)
                    /\ ~accepted =>
                        /\ errors = <<Diag(Self, "InvalidBinaryOp", "")>>
                        /\ result = AnalysisError

C10_Witness ==
    /\ pc = "done" /\ node.kind = "BinaryOp" /\ node.operator = "BitwiseXor"
    /\ node.lhs.ty = I64 /\ instance(tvars, node.rhs.ty) = I64 /\ node.rhs.ty.k = "var"
    /\ errors = <<>> /\ result.ty = I64

(***************************************************************************)
(* Expr::Match.  syms[s] is the container of symbol s; each mapping holds  *)
(* its variant name, its inout mark and the type of its (child) body.      *)
(***************************************************************************)
Container(fields, kind) == [kind |-> kind, fields |-> fields]
Field(name, ty) == [name |-> name, ty |-> ty]
NoDiag == Diag(Self, "none", <<>>)
Min(a, b) == IF a < b THEN a ELSE b

\* SymbolMap::new_var: a fresh, unresolved type variable.
new_var(tv) ==
    [tvars |-> Append(tv, [sub |-> "none", val |-> Unset]), var |-> Var(Len(tv) + 1)]

\* Variant of the scan that never looks for a repeated name.
RECURSIVE MatchCheckNames_NoDup(_, _, _)
MatchCheckNames_NoDup(cont, mappings, i) ==
    IF i > Len(mappings) THEN NoDiag
    ELSE IF ~\E j \in DOMAIN cont.fields : cont.fields[j].name = mappings[i].variant
    THEN Diag(Self, "InvalidMatch", <<mappings[i].variant>>)
    ELSE MatchCheckNames_NoDup(cont, mappings, i + 1)

\* "check the mapping names": the first diagnostic of the scan, or NoDiag.
RECURSIVE MatchCheckNames(_, _, _)
MatchCheckNames(cont, mappings, i) ==
    IF i > Len(mappings) THEN NoDiag
    ELSE IF ~\E j \in DOMAIN cont.fields : cont.fields[j].name = mappings[i].variant
    THEN Diag(Self, "InvalidMatch", <<mappings[i].variant>>)
    ELSE IF \E o \in (i + 1) .. Len(mappings) : mappings[o].variant = mappings[i].variant
    THEN Diag(Self, "DuplicateMatch", <<mappings[i].variant>>)
    ELSE MatchCheckNames(cont, mappings, i + 1)

\* missings: the declared variants no mapping names, in declaration order.
MatchMissings(cont, mappings) ==
    LET Missing(f) == ~\E i \in DOMAIN mappings : mappings[i].variant = f.name
        sel == SelectSeq(cont.fields, Missing)
    IN  [i \in DOMAIN sel |-> sel[i].name]

\* "ty chck": mapping i is paired with field i of the container.
RECURSIVE MatchArms(_, _, _, _, _, _, _)
MatchArms(tv, n, cont, ret, i, errs, vis) ==
    IF i > Min(Len(n.mappings), Len(cont.fields))
    THEN Out(AnalysisResult(ret, TRUE), tv, errs, vis)
    ELSE LET m == n.mappings[i]
             f == cont.fields[i]
             e1 == IF m.is_inout /\ ~n.taken_as_inout
                   THEN <<Diag(ChildAt("arm", i), "InOutValueWithoutInOutBinding", <<>>)>>
                   ELSE <<>>
             c == eq(tv, m.ty, ret)
             e2 == IF ~c.ok THEN <<Diag(ChildAt("arm", i), "InvalidType", <<>>)>> ELSE <<>>
         IN  MatchArms(c.tvars, n, cont, ret, i + 1, errs \o e1 \o e2,
                       Append(vis, [child |-> ChildAt("arm", i), binding |-> f.ty]))

MatchExpr(tv, sy, n) ==
    LET vis == <<V("value")>>
        vs == sym(tv, n.value.ty)
        cont == sy[vs.s]
        d == MatchCheckNames(cont, n.mappings, 1)
        missings == MatchMissings(cont, n.mappings)
        ret == new_var(vs.tvars)
    IN  IF ~vs.ok THEN Out(AnalysisError, vs.tvars, <<Diag(Self, "UnresolvedVar", <<>>)>>, vis)
        ELSE IF cont.kind # "Enum"
        THEN Out(AnalysisError, vs.tvars, <<Diag(Self, "MatchValueIsntEnum", <<>>)>>, vis)
        ELSE IF d # NoDiag THEN Out(AnalysisError, vs.tvars, <<d>>, vis)
        ELSE IF missings # <<>>
        THEN Out(AnalysisError, vs.tvars, <<Diag(Self, "MissingMatch", missings)>>, vis)
        ELSE MatchArms(ret.tvars, n, cont, ret.var, 1, <<>>, vis)

SeqsUpTo(S, n) == UNION {[1 .. k -> S] : k \in 0 .. n}

VariantNames == {"A", "B", "C"}
PayloadOf(name) == CASE name = "A" -> I64 [] name = "B" -> BOOL [] OTHER -> STR
Variants(names) == [i \in DOMAIN names |-> Field(names[i], PayloadOf(names[i]))]
VariantLists ==
    {Variants(l) : l \in {<<"A">>, <<"A", "B">>, <<"B", "A">>, <<"A", "B", "C">>, <<"C", "A", "B">>}}
MatchMappings ==
    {[variant |-> v, is_inout |-> f[1], ty |-> f[2]] :
        v \in VariantNames \cup {"Z"}, f \in {<<FALSE, I64>>, <<TRUE, BOOL>>}}
MatchNodes ==
    [kind : {"Match"}, value : {AnalysisResult(Ty("E"), TRUE)}, taken_as_inout : BOOLEAN,
     mappings : SeqsUpTo(MatchMappings, MaxArms)]

InitMatch ==
    /\ pc = "expr"
    /\ body = NoBlock
    /\ namespaces = <<>>
    /\ syms \in {[E |-> Container(fs, k)] : fs \in VariantLists, k \in {"Enum", "Struct"}}
    /\ tvars = NoTVars
    /\ node \in MatchNodes
    /\ (syms.E.kind = "Struct" => node.taken_as_inout = FALSE /\ syms.E.fields = Variants(<<"A", "B">>))
    /\ result = NoResult
    /\ visited = <<>>
    /\ errors = <<>>
    /\ func_calls = <<>>
    /\ string_map = with_capacity.sm
    /\ gen_map = GenMapDefault
    /\ handles = [live |-> {}, dead |-> {}]
    /\ heap = WallocNew
    /\ live = {}
    /\ input_manager = InputManagerNew

EvalMatch ==
    /\ pc = "expr"
    /\ node.kind = "Match"
    /\ Finish(MatchExpr(tvars, syms, node))

SpecMatch == InitMatch /\ [][EvalMatch]_vars

ArmNames == [i \in DOMAIN node.mappings |-> node.mappings[i].variant]
Declared == {syms.E.fields[j].name : j \in DOMAIN syms.E.fields}
Omitted == Declared \ Range(ArmNames)
Unknown(i) == ArmNames[i] \notin Declared
Repeated(i) == \E j \in (i + 1) .. Len(ArmNames) : ArmNames[j] = ArmNames[i]
Offending == {i \in DOMAIN ArmNames : Unknown(i) \/ Repeated(i)}
FirstOffending == CHOOSE i \in Offending : \A j \in Offending : i <= j
MatchKinds == {"MissingMatch", "DuplicateMatch", "InvalidMatch"}
MatchDone == pc = "done" /\ node.kind = "Match" /\ syms.E.kind = "Enum"
MatchMissingOk ==
    (Offending = {} /\ Omitted # {}) =>
        /\ Len(errors) = 1 /\ errors[1].node = Self /\ errors[1].kind = "MissingMatch"
        /\ Range(errors[1].name) = Omitted
        /\ Len(errors[1].name) = Cardinality(Omitted)
MatchAcceptedOk ==
    (\A i \in DOMAIN errors : errors[i].kind \notin MatchKinds)
        <=> (Len(ArmNames) = Len(syms.E.fields) /\ Range(ArmNames) = Declared)

\* C1 as stated: omitted variants give exactly one MissingMatch naming them; any
\* repeated variant name gives exactly one DuplicateMatch; any undeclared name gives
\* InvalidMatch; accepted iff the arm names are a permutation of the variants.
C1_Original ==
    MatchDone =>
        /\ MatchMissingOk
        /\ (\E i \in DOMAIN ArmNames : Repeated(i) /\ ~Unknown(i)) =>
               Count(errors, "DuplicateMatch") = 1
        /\ (\E i \in DOMAIN ArmNames : Unknown(i)) => Count(errors, "InvalidMatch") >= 1
        /\ MatchAcceptedOk

\* C1 (amended): omitted variants (with no unknown or repeated name) give exactly one
\* MissingMatch naming exactly them; otherwise the first arm, in source order, that
\* names an undeclared variant or is repeated by a later arm decides the single
\* diagnostic: InvalidMatch if it is undeclared, else DuplicateMatch; the match is
\* accepted iff the arm names are a permutation of the variants.
C1_Match ==
    MatchDone =>
        /\ MatchMissingOk
        /\ Offending # {} =>
               errors = <<Diag(Self,
                               IF Unknown(FirstOffending) THEN "InvalidMatch" ELSE "DuplicateMatch",
                               <<ArmNames[FirstOffending]>>)>>
        /\ MatchAcceptedOk

C1_Witness ==
    /\ MatchDone
    /\ syms.E.fields = Variants(<<"A", "B">>)
    /\ ArmNames = <<"A", "B", "A">>
    /\ errors = <<Diag(Self, "DuplicateMatch", <<"A">>)>>

(***************************************************************************)
(* Expr::CallFunction.  n.func is the outcome of the lookup of the callee  *)
(* name; each argument holds the result of its (child) expression and the  *)
(* inout mark of the call site.                                            *)
(***************************************************************************)
Gen(name) == [k |-> "gen", s |-> name, v |-> 0]
FunctionArgument(ty, inout) == [ty |-> ty, inout |-> inout]
FunctionTy(args, ret, generics) ==
    [kind |-> "Function", args |-> args, ret |-> ret, generics |-> generics]
Lookup(found, ok, s) == [found |-> found, ok |-> ok, sym |-> s]

\* Generic::to_ty: a generic parameter stands for the variable bound to its name.
to_ty(g, gens) ==
    IF g.k = "gen" THEN (CHOOSE b \in Range(gens) : b[1] = g.s)[2] ELSE g

\* Variant of "create gens" (below) with one variable for all the parameters.
CallGenerics_Shared(tv, generics, i, acc) ==
    [tvars |-> new_var(tv).tvars,
     gens |-> [j \in DOMAIN generics |-> <<generics[j], new_var(tv).var>>]]

\* "create gens": one fresh variable per generic parameter of the callee.
RECURSIVE CallGenerics(_, _, _, _)
CallGenerics(tv, generics, i, acc) ==
    IF i > Len(generics) THEN [tvars |-> tv, gens |-> acc]
    ELSE LET nv == new_var(tv)
         IN  CallGenerics(nv.tvars, generics, i + 1, Append(acc, <<generics[i], nv.var>>))

InOutDiag(n, kind, i) == Diag(n.id, kind, ChildAt("arg", i))

\* Variant that never attributes the first parameter's inout to the receiver.
RECURSIVE CallArgs_NoReceiver(_, _, _, _, _, _)
CallArgs_NoReceiver(tv, n, func_args, ret, i, errs) ==
    IF i > Min(Len(n.args), Len(func_args))
    THEN Out(AnalysisResult(ret, TRUE), tv, errs,
             [j \in DOMAIN n.args |-> [child |-> ChildAt("arg", j), binding |-> Unset]])
    ELSE LET a == n.args[i]
             fa == func_args[i]
             c == eq(tv, a.res.ty, fa.ty)
             e1 == IF ~c.ok THEN <<Diag(ChildAt("arg", i), "InvalidType", ChildAt("arg", i))>>
                   ELSE <<>>
             is_inout == a.inout
             e2 == IF is_inout /\ ~fa.inout THEN <<InOutDiag(n, "InOutValueWithoutInOutBinding", i)>>
                   ELSE IF is_inout /\ ~a.res.is_mut THEN <<InOutDiag(n, "InOutValueIsntMut", i)>>
                   ELSE <<>>
             e3 == IF ~is_inout /\ fa.inout THEN <<InOutDiag(n, "InOutBindingWithoutInOutValue", i)>>
                   ELSE <<>>
         IN  CallArgs_NoReceiver(c.tvars, n, func_args, ret, i + 1, errs \o e1 \o e2 \o e3)

\* "ty & inout check args".
RECURSIVE CallArgs(_, _, _, _, _, _)
CallArgs(tv, n, func_args, ret, i, errs) ==
    IF i > Min(Len(n.args), Len(func_args))
    THEN Out(AnalysisResult(ret, TRUE), tv, errs,
             [j \in DOMAIN n.args |-> [child |-> ChildAt("arg", j), binding |-> Unset]])
    ELSE LET a == n.args[i]
             fa == func_args[i]
             c == eq(tv, a.res.ty, fa.ty)
             e1 == IF ~c.ok THEN <<Diag(ChildAt("arg", i), "InvalidType", ChildAt("arg", i))>>
                   ELSE <<>>
             is_inout == IF fa.inout /\ n.is_accessor /\ i = 1 THEN TRUE ELSE a.inout
             e2 == IF is_inout /\ ~fa.inout THEN <<InOutDiag(n, "InOutValueWithoutInOutBinding", i)>>
                   ELSE IF is_inout /\ ~a.res.is_mut THEN <<InOutDiag(n, "InOutValueIsntMut", i)>>
                   ELSE <<>>
             e3 == IF ~is_inout /\ fa.inout THEN <<InOutDiag(n, "InOutBindingWithoutInOutValue", i)>>
                   ELSE <<>>
         IN  CallArgs(c.tvars, n, func_args, ret, i + 1, errs \o e1 \o e2 \o e3)

CallFunctionExpr(tv, sy, n) ==
    LET vis == [j \in DOMAIN n.args |-> [child |-> ChildAt("arg", j), binding |-> Unset]]
        rs == IF n.is_accessor THEN sym(tv, n.args[1].res.ty)
              ELSE [ok |-> TRUE, s |-> "", tvars |-> tv]
        func == sy[n.func.sym]
        fg == CallGenerics(rs.tvars, func.generics, 1, <<>>)
        func_args == [j \in DOMAIN func.args |->
                         FunctionArgument(to_ty(func.args[j].ty, fg.gens), func.args[j].inout)]
        ret == to_ty(func.ret, fg.gens)
    IN  IF ~rs.ok THEN Out(AnalysisError, rs.tvars, <<Diag(n.id, "UnresolvedVar", n.name)>>, vis)
        ELSE IF ~n.func.found
        THEN Out(AnalysisError, rs.tvars, <<Diag(n.id, "FunctionNotFound", n.name)>>, vis)
        ELSE IF ~n.func.ok
        THEN Out(AnalysisError, rs.tvars, <<Diag(n.id, "Bypass", n.name)>>, vis)
        ELSE IF func.kind # "Function"
        THEN Out(AnalysisError, rs.tvars, <<Diag(n.id, "CallOnNonFunction", n.name)>>, vis)
        ELSE IF Len(func.args) # Len(n.args)
        THEN Out(AnalysisError, rs.tvars, <<Diag(n.id, "FunctionArgsMismatch", n.name)>>, vis)
        ELSE CallArgs(fg.tvars, n, func_args, ret, 1, <<>>)
             @@ [func_call |-> [node |-> n.id, sym |-> n.func.sym, gens |-> fg.gens]]

CallArgResults == {AnalysisResult(t, m) : t \in {I64, BOOL}, m \in BOOLEAN}
CallArguments == [res : CallArgResults, inout : BOOLEAN]
CallParameters == {FunctionArgument(t, io) : t \in {I64, Gen("T")}, io \in BOOLEAN}
CallNodes ==
    [kind : {"CallFunction"}, id : {Self}, name : {Child("f")}, is_accessor : BOOLEAN,
     func : {Lookup(TRUE, TRUE, "f")}, args : SeqsUpTo(CallArguments, MaxArgs)]
CallNodesUnresolved ==
    [kind : {"CallFunction"}, id : {Self}, name : {Child("f")}, is_accessor : BOOLEAN,
     func : {Lookup(FALSE, TRUE, "f"), Lookup(TRUE, FALSE, "f")},
     args : SeqsUpTo(CallArguments, 1)]

InitCall ==
    /\ pc = "expr"
    /\ body = NoBlock
    /\ namespaces = <<>>
    /\ tvars = NoTVars
    /\ \/ /\ node \in CallNodes
          /\ syms \in {[f |-> FunctionTy(ps, Gen("T"), <<"T">>)] :
                          ps \in SeqsUpTo(CallParameters, MaxArgs)}
       \/ /\ node \in CallNodes /\ Len(node.args) <= 1
          /\ syms = [f |-> Container(<<>>, "Struct")]
       \/ /\ node \in CallNodesUnresolved
          /\ syms = [f |-> FunctionTy(<<>>, Gen("T"), <<"T">>)]
    /\ (node.is_accessor => Len(node.args) >= 1)
    /\ result = NoResult
    /\ visited = <<>>
    /\ errors = <<>>
    /\ func_calls = <<>>
    /\ string_map = with_capacity.sm
    /\ gen_map = GenMapDefault
    /\ handles = [live |-> {}, dead |-> {}]
    /\ heap = WallocNew
    /\ live = {}
    /\ input_manager = InputManagerNew

EvalCall ==
    /\ pc = "expr"
    /\ node.kind = "CallFunction"
    /\ Finish(CallFunctionExpr(tvars, syms, node))

SpecCall == InitCall /\ [][EvalCall]_vars

InOutKinds ==
    {"InOutValueWithoutInOutBinding", "InOutValueIsntMut", "InOutBindingWithoutInOutValue"}
\* The inout diagnostics reported for argument position i, in order.
InOutAt(i) ==
    LET At(e) == e.kind \in InOutKinds /\ e.name = ChildAt("arg", i)
        sel == SelectSeq(errors, At)
    IN  [j \in DOMAIN sel |-> sel[j].kind]
\* The call reached the check of its arguments.
CallChecked ==
    /\ pc = "done" /\ node.kind = "CallFunction"
    /\ node.func.found /\ node.func.ok
    /\ syms.f.kind = "Function" /\ Len(syms.f.args) = Len(node.args)

\* C2: in a call that reaches the check of its arguments, for every position: an
\* inout parameter whose argument is not marked inout reports
\* InOutBindingWithoutInOutValue; a marked argument of a parameter that is not inout
\* reports InOutValueWithoutInOutBinding; both inout with an argument that is not
\* mutable reports InOutValueIsntMut; otherwise nothing.  The receiver of an accessor
\* call counts as marked whenever the first parameter is inout.
C2_InOut ==
    CallChecked =>
        \A i \in DOMAIN node.args :
            LET p == syms.f.args[i].inout
                marked == IF node.is_accessor /\ i = 1 /\ p THEN TRUE ELSE node.args[i].inout
                is_mut == node.args[i].res.is_mut
            IN  InOutAt(i) =
                    (IF p /\ ~marked THEN <<"InOutBindingWithoutInOutValue">>
                     ELSE IF marked /\ ~p THEN <<"InOutValueWithoutInOutBinding">>
                     ELSE IF p /\ marked /\ ~is_mut THEN <<"InOutValueIsntMut">>
                     ELSE <<>>)

C2_Witness ==
    /\ CallChecked /\ node.is_accessor /\ Len(node.args) = 2
    /\ syms.f.args[1].inout /\ ~node.args[1].inout /\ node.args[1].res.is_mut
    /\ syms.f.args[2].inout /\ ~node.args[2].inout
    /\ InOutAt(1) = <<>>
    /\ InOutAt(2) = <<"InOutBindingWithoutInOutValue">>

(***************************************************************************)
(* Calls of a generic function, one after the other.  The arguments are    *)
(* evaluated before the call: an integer literal has the type variable its *)
(* evaluation created, argument j the variable j.                          *)
(***************************************************************************)
MaxCalls == 2
\* The k-th call `f(...)` with arguments of the given types.
CallSite(k, types) ==
    [kind |-> "CallFunction", id |-> ChildAt("id", k), name |-> Child("f"),
     is_accessor |-> FALSE, func |-> Lookup(TRUE, TRUE, "f"),
     args |-> [j \in DOMAIN types |-> [res |-> AnalysisResult(types[j], TRUE), inout |-> FALSE]]]

\* f is identity<T>(x: T) -> T, f<T>(a: T, b: T) -> T or f<T, U>(a: T, b: U) -> U.
InitCalls ==
    /\ pc = "expr"
    /\ body = NoBlock
    /\ namespaces = <<>>
    /\ syms \in {[f |-> FunctionTy(<<FunctionArgument(Gen("T"), FALSE)>>, Gen("T"), <<"T">>)],
                 [f |-> FunctionTy(<<FunctionArgument(Gen("T"), FALSE),
                                     FunctionArgument(Gen("T"), FALSE)>>, Gen("T"), <<"T">>)],
                 [f |-> FunctionTy(<<FunctionArgument(Gen("T"), FALSE),
                                     FunctionArgument(Gen("U"), FALSE)>>, Gen("U"),
                                   <<"T", "U">>)]}
    /\ tvars = [j \in 1 .. MaxArgs |-> [sub |-> "integer", val |-> Unset]]
    /\ \E types \in SeqsUpTo({I64, BOOL, Unset}, MaxArgs) :
          node = CallSite(0, [j \in DOMAIN types |->
                                 IF types[j] = Unset THEN Var(j) ELSE types[j]])
    /\ result = NoResult
    /\ visited = <<>>
    /\ errors = <<>>
    /\ func_calls = <<>>
    /\ string_map = with_capacity.sm
    /\ gen_map = GenMapDefault
    /\ handles = [live |-> {}, dead |-> {}]
    /\ heap = WallocNew
    /\ live = {}
    /\ input_manager = InputManagerNew

\* The next call of f in the block.
NextCall ==
    /\ pc = "done"
    /\ node.kind = "CallFunction"
    /\ node.id[2] + 1 < MaxCalls
    /\ pc' = "expr"
    /\ node' \in {CallSite(node.id[2] + 1, types) : types \in SeqsUpTo({I64, BOOL}, MaxArgs)}
    /\ result' = NoResult
    /\ UNCHANGED <<body, namespaces, syms, tvars, visited, errors, func_calls, string_map, gen_map, handles, heap, live, input_manager>>

SpecCalls == InitCalls /\ [][EvalCall \/ NextCall]_vars

\* The variable a call bound to a generic parameter, and the variables of a call.
VarOf(call, g) == (CHOOSE b \in Range(call.gens) : b[1] = g)[2]
VarsOf(call) == {call.gens[j][2] : j \in DOMAIN call.gens}
\* The argument positions of the call whose argument was reported as InvalidType.
Mistyped == {i \in DOMAIN node.args :
                \E e \in Range(errors) : e.kind = "InvalidType" /\ e.node = ChildAt("arg", i)}

\* C14: a call of a generic function that passes the arity check records, once,
\* the callee with one variable per generic parameter, in order, all distinct,
\* none of them a variable that existed before the call or that another call
\* recorded.  An argument of a generic parameter's type either has the type its
\* parameter's variable stands for, or is reported as InvalidType; so one
\* parameter used twice needs both arguments of one type.  The result has the
\* type the variable of the declared return type stands for: for identity, the
\* argument's type.
C14_GenericCall ==
    (pc = "done" /\ node.kind = "CallFunction" /\ Len(syms.f.args) = Len(node.args)) =>
        LET recs == {i \in DOMAIN func_calls : func_calls[i].node = node.id}
            call == func_calls[CHOOSE i \in recs : TRUE]
            first == node.id = Self
        IN  /\ Cardinality(recs) = 1
            /\ call.sym = node.func.sym
            /\ [j \in DOMAIN call.gens |-> call.gens[j][1]] = syms.f.generics
            /\ Cardinality(VarsOf(call)) = Len(syms.f.generics)
            /\ \A v \in VarsOf(call) : v.v > MaxArgs /\ v.v <= Len(tvars)
            /\ \A i \in DOMAIN func_calls : i \notin recs => VarsOf(func_calls[i]) \cap VarsOf(call) = {}
            /\ \A j \in DOMAIN node.args :
                  LET same == instance(tvars, VarOf(call, syms.f.args[j].ty.s))
                                 = instance(tvars, node.args[j].res.ty)
                  IN  /\ errors = <<>> => same
                      /\ first => (same <=> j \notin Mistyped)
            /\ instance(tvars, result.ty) = instance(tvars, VarOf(call, syms.f.ret.s))

\* identity(true) then identity(1): each call has a variable of its own for T,
\* bound to bool by the first and to i64 by the second, whose result is i64.
C14_Witness ==
    /\ pc = "done" /\ node.kind = "CallFunction"
    /\ syms.f.generics = <<"T">> /\ Len(syms.f.args) = 1
    /\ Len(func_calls) = 2 /\ errors = <<>>
    /\ func_calls[1].gens = << <<"T", Var(MaxArgs + 1)>> >>
    /\ func_calls[2].gens = << <<"T", Var(MaxArgs + 2)>> >>
    /\ instance(tvars, Var(MaxArgs + 1)) = BOOL
    /\ node.args[1].res.ty = I64
    /\ instance(tvars, Var(MaxArgs + 2)) = I64
    /\ instance(tvars, result.ty) = I64

(***************************************************************************)
(* The declaration passes of TyChecker::block.  A declaration is a record  *)
(* [kind, name, refs, body]: refs are the names of the types of its fields *)
(* (struct), mappings (enum) or arguments (function); body holds the       *)
(* declarations of a module or impl, the functions of an extern block, or  *)
(* the declaration an attribute is attached to.  The id of a declaration   *)
(* is its index path in the block.                                         *)
(***************************************************************************)
Decl(kind, name, refs, decls) == [kind |-> kind, name |-> name, refs |-> refs, body |-> decls]

Namespace(path) == [path |-> path, syms |-> {}, nss |-> {}]
NoEntry == [name |-> "", sym |-> 0, err |-> FALSE]
\* Namespace::get_sym: NoEntry for None, otherwise the entry with its error marker.
get_sym(ns, name) ==
    IF \E e \in ns.syms : e.name = name THEN CHOOSE e \in ns.syms : e.name = name ELSE NoEntry
ns_add_sym(ns, name, id) ==
    [ns EXCEPT !.syms = @ \cup {[name |-> name, sym |-> id, err |-> FALSE]}]
set_err_sym(ns, name) ==
    [ns EXCEPT !.syms = {IF e.name = name THEN [e EXCEPT !.err = TRUE] ELSE e : e \in @}]
\* Namespace::get_ns: 0 for None.
get_ns(ns, name) ==
    IF \E e \in ns.nss : e.name = name THEN (CHOOSE e \in ns.nss : e.name = name).ns ELSE 0
add_ns(ns, name, id) == [ns EXCEPT !.nss = @ \cup {[name |-> name, ns |-> id]}]

\* The analyser's state threaded through a pass; abort names the panic, if any.
Checker(nss, sy, errs, abort) ==
    [namespaces |-> nss, syms |-> sy, errors |-> errs, abort |-> abort]
\* TyChecker::error; the name of a diagnostic is <<namespace, name>>.
error(st, n, kind, ns_id, name) ==
    [st EXCEPT !.errors = Append(@, Diag(n, kind, <<ns_id, name>>))]
panic(st, what) == [st EXCEPT !.abort = IF @ = "" THEN what ELSE @]

SymTy(id) == [k |-> "ty", s |-> "sym", v |-> id]
Symbol(path, ns_id, n) ==
    [path |-> path, ns |-> ns_id, node |-> n, fills |-> 0, kind |-> "Pending",
     fields |-> <<>>, args |-> <<>>, ret |-> UNIT, generics |-> <<>>]
\* SymbolMap::pending: a placeholder symbol with a namespace of its own.
pending(st, path, n) ==
    LET nss == Append(st.namespaces, Namespace(path))
    IN  [st EXCEPT !.namespaces = nss,
                   !.syms = Append(@, Symbol(path, Len(nss), n))]
\* SymbolMap::add_sym and add_enum: fill a placeholder; a second fill is an
\* assertion failure.
add_sym(st, id, kind, fields, ret) ==
    LET filled == [st EXCEPT !.syms[id].fills = @ + 1,
                             !.syms[id].kind = kind,
                             !.syms[id].fields = fields,
                             !.syms[id].args = [j \in DOMAIN fields |->
                                                   FunctionArgument(fields[j], FALSE)],
                             !.syms[id].ret = ret]
    IN  IF st.syms[id].fills > 0 THEN panic(filled, "add_sym") ELSE filled

\* Scope::find_sym over a chain of namespaces, innermost first.
RECURSIVE find_sym(_, _, _)
find_sym(st, scope, name) ==
    IF scope = <<>> THEN [ns |-> 0, entry |-> NoEntry]
    ELSE IF get_sym(st.namespaces[Head(scope)], name) # NoEntry
    THEN [ns |-> Head(scope), entry |-> get_sym(st.namespaces[Head(scope)], name)]
    ELSE find_sym(st, Tail(scope), name)

BuiltinTypes == {"int", "bool"}
\* TyChecker::dt_to_gen: a built-in type, a declared type, Bypass for a name
\* marked erroneous, UnknownType otherwise.
dt_to_gen(st, scope, name) ==
    LET f == find_sym(st, scope, name)
    IN  IF name \in BuiltinTypes
        THEN [ok |-> TRUE, ty |-> IF name = "int" THEN I64 ELSE BOOL, err |-> "", ns |-> 0]
        ELSE IF f.entry = NoEntry
        THEN [ok |-> FALSE, ty |-> ERROR, err |-> "UnknownType", ns |-> 0]
        ELSE IF f.entry.err
        THEN [ok |-> FALSE, ty |-> ERROR, err |-> "Bypass", ns |-> f.ns]
        ELSE [ok |-> TRUE, ty |-> SymTy(f.entry.sym), err |-> "", ns |-> f.ns]

\* Variant of the name check (below) in which a redeclaration rebinds the name.
DeclareName_LastWins(st, path, ns_id, n, name, kind) ==
    LET p == pending(st, Append(path, name), n)
    IN  [p EXCEPT !.namespaces[ns_id].syms =
            {e \in @ : e.name # name} \cup {[name |-> name, sym |-> Len(p.syms), err |-> FALSE]}]

\* Variant that reports a redeclaration only while the name is not yet marked.
DeclareName_ReportOnce(st, path, ns_id, n, name, kind) ==
    LET ns == st.namespaces[ns_id]
        marked == [st EXCEPT !.namespaces[ns_id] = set_err_sym(@, name)]
        p == pending(st, Append(path, name), n)
    IN  IF get_sym(ns, name) # NoEntry
        THEN IF get_sym(ns, name).err THEN st
             ELSE error(marked, n, "NameIsAlreadyDefined", ns_id, name)
        ELSE [p EXCEPT !.namespaces[ns_id] = ns_add_sym(@, name, Len(p.syms))]

\* collect_names, struct / enum / function and each extern function: a bound name
\* is marked erroneous and reported; a free name gets a pending symbol.
DeclareName(st, path, ns_id, n, name, kind) ==
    LET ns == st.namespaces[ns_id]
        marked == IF ~get_sym(ns, name).err
                  THEN [st EXCEPT !.namespaces[ns_id] = set_err_sym(@, name)]
                  ELSE st
        reserved == IF name \in {"ITER_NEXT_FUNC", "ITER_MUTATE"} /\ kind # "Function"
                    THEN error(st, n, "NameIsReservedForFunctions", ns_id, name)
                    ELSE st
        p == pending(reserved, Append(path, name), n)
    IN  IF get_sym(ns, name) # NoEntry
        THEN error(marked, n, "NameIsAlreadyDefined", ns_id, name)
        ELSE [p EXCEPT !.namespaces[ns_id] = ns_add_sym(@, name, Len(p.syms))]

RECURSIVE collect_extern(_, _, _, _, _, _)
collect_extern(st, path, ns_id, n, functions, i) ==
    IF i > Len(functions) THEN st
    ELSE collect_extern(DeclareName(st, path, ns_id, n, functions[i].name, "Function"),
                        path, ns_id, n, functions, i + 1)

RECURSIVE collect_names(_, _, _, _, _, _)
collect_names(st, path, ns_id, nodes, base, i) ==
    IF i > Len(nodes) THEN st
    ELSE LET decl == nodes[i]
             n == Append(base, i)
             ns == st.namespaces[ns_id]
             mpath == Append(path, decl.name)
             pushed == [st EXCEPT !.namespaces = Append(@, Namespace(mpath))]
             module_ns == Len(pushed.namespaces)
             added == [pushed EXCEPT !.namespaces[ns_id] = add_ns(@, decl.name, module_ns)]
             st1 == CASE decl.kind \in {"Struct", "Enum", "Function"} ->
                            DeclareName(st, path, ns_id, n, decl.name, decl.kind)
                      [] decl.kind = "Extern" ->
                            collect_extern(st, path, ns_id, n, decl.body, 1)
                      [] decl.kind = "Module" ->
                            IF get_ns(ns, decl.name) # 0
                            THEN error(st, n, "NameIsAlreadyDefined", ns_id, decl.name)
                            ELSE collect_names(added, mpath, module_ns, decl.body, n, 1)
                      [] decl.kind = "Attribute" ->
                            collect_names(st, path, ns_id, decl.body, n, 1)
                      [] OTHER -> st
         IN  collect_names(st1, path, ns_id, nodes, base, i + 1)

RECURSIVE collect_impls(_, _, _, _, _, _, _)
collect_impls(st, path, scope, ns_id, nodes, base, i) ==
    IF i > Len(nodes) \/ st.abort # "" THEN st
    ELSE LET decl == nodes[i]
             n == Append(base, i)
             module_ns == get_ns(st.namespaces[ns_id], decl.name)
             ty == dt_to_gen(st, scope, decl.name)
             ns == st.syms[ty.ty.v].ns
             st1 == CASE decl.kind = "Module" ->
                            IF module_ns = 0 THEN panic(st, "unwrap")
                            ELSE collect_impls(st, path, <<module_ns>> \o scope, module_ns,
                                               decl.body, n, 1)
                      [] decl.kind = "Impl" ->
                            IF ~ty.ok THEN error(st, n, ty.err, ty.ns, decl.name)
                            ELSE collect_impls(collect_names(st, path, ns, decl.body, n, 1),
                                               path, scope, ns, decl.body, n, 1)
                      [] decl.kind = "Attribute" ->
                            collect_impls(st, path, scope, ns_id, decl.body, n, 1)
                      [] OTHER -> st
         IN  collect_impls(st1, path, scope, ns_id, nodes, base, i + 1)

\* The translation of the field or argument types of one declaration: an
\* untranslatable type is reported on the declaration and becomes ERROR.
RECURSIVE translate(_, _, _, _, _, _)
translate(st, scope, n, refs, i, acc) ==
    IF i > Len(refs) THEN [st |-> st, gens |-> acc]
    ELSE LET g == dt_to_gen(st, scope, refs[i])
         IN  translate(IF g.ok THEN st ELSE error(st, n, g.err, g.ns, refs[i]),
                       scope, n, refs, i + 1, Append(acc, g.ty))

\* compute_types, Decl::Extern: each signature is translated before its name is
\* looked up.
RECURSIVE compute_extern(_, _, _, _, _, _)
compute_extern(st0, scope, ns_id, n, functions, i) ==
    Once(st0, LAMBDA st :
        IF i > Len(functions) \/ st.abort # "" THEN st
        ELSE LET t == translate(st, scope, n, functions[i].refs, 1, <<>>)
                 e == get_sym(t.st.namespaces[ns_id], functions[i].name)
                 st1 == IF e = NoEntry THEN panic(t.st, "unwrap")
                        ELSE IF e.err THEN t.st
                        ELSE add_sym(t.st, e.sym, "Function", t.gens, UNIT)
             IN  compute_extern(st1, scope, ns_id, n, functions, i + 1))

RECURSIVE compute_types(_, _, _, _, _, _, _)
compute_types(st0, path, scope, ns_id, nodes, base, i) ==
    Once(st0, LAMBDA st :
        IF i > Len(nodes) \/ st.abort # "" THEN st
        ELSE LET decl == nodes[i]
                 n == Append(base, i)
                 e == get_sym(st.namespaces[ns_id], decl.name)
                 t == translate(st, scope, n, decl.refs, 1, <<>>)
                 module_ns == get_ns(st.namespaces[ns_id], decl.name)
                 ty == dt_to_gen(st, scope, decl.name)
                 st1 == CASE decl.kind \in {"Struct", "Enum"} ->
                                IF e = NoEntry THEN panic(st, "unwrap")
                                ELSE IF e.err THEN st
                                ELSE add_sym(t.st, e.sym, decl.kind, t.gens, UNIT)
                          [] decl.kind = "Function" ->
                                IF e = NoEntry \/ e.err THEN st
                                ELSE add_sym(t.st, e.sym, "Function", t.gens, UNIT)
                          [] decl.kind = "Extern" ->
                                compute_extern(st, scope, ns_id, n, decl.body, 1)
                          [] decl.kind = "Module" ->
                                IF module_ns = 0 THEN st
                                ELSE compute_types(st, st.namespaces[module_ns].path,
                                                   <<module_ns>> \o scope, module_ns,
                                                   decl.body, n, 1)
                          [] decl.kind = "Impl" ->
                                IF ~ty.ok THEN st
                                ELSE compute_types(st, path, scope, st.syms[ty.ty.v].ns,
                                                   decl.body, n, 1)
                          [] decl.kind = "Attribute" ->
                                compute_types(st, path, scope, ns_id, decl.body, n, 1)
                          [] OTHER -> st
             IN  compute_types(st1, path, scope, ns_id, nodes, base, i + 1))

\* The declarations a block is drawn from: structs naming each other, an enum and
\* a function of the same name, an extern block, an attribute-wrapped struct, three
\* modules of one name, and impls on a declared and on an undeclared type.
Decls ==
    { Decl("Struct", "A", <<"B">>, <<>>),
      Decl("Struct", "B", <<"A">>, <<>>),
      Decl("Enum", "A", <<"int">>, <<>>),
      Decl("Function", "A", <<"X">>, <<>>),
      Decl("Extern", "", <<>>, <<Decl("ExternFunction", "B", <<>>, <<>>),
                                 Decl("ExternFunction", "A", <<"int">>, <<>>)>>),
      Decl("Attribute", "startup", <<>>, <<Decl("Struct", "B", <<"A">>, <<>>)>>),
      Decl("Module", "m", <<>>, <<>>),
      Decl("Module", "m", <<>>, <<Decl("Struct", "A", <<"B">>, <<>>)>>),
      Decl("Module", "m", <<>>,
           <<Decl("Extern", "", <<>>, <<Decl("ExternFunction", "B", <<"X">>, <<>>)>>)>>),
      Decl("Impl", "A", <<>>, <<Decl("Function", "B", <<>>, <<>>)>>),
      Decl("Impl", "X", <<>>, <<Decl("Function", "B", <<>>, <<>>)>>) }
Blocks == SeqsUpTo(Decls, MaxDecls)
\* The namespace of the block and its scope; the path of the block is <<>>.
BlockNs == 1
BlockScope == <<BlockNs>>

\* The state on entry to collect_names: block() has pushed the block's namespace.
InitDecl ==
    /\ pc = "collect_names"
    /\ body \in Blocks
    /\ namespaces = <<Namespace(<<>>)>>
    /\ syms = <<>>
    /\ tvars = NoTVars
    /\ node = NoNode
    /\ result = NoResult
    /\ visited = <<>>
    /\ errors = <<>>
    /\ func_calls = <<>>
    /\ string_map = with_capacity.sm
    /\ gen_map = GenMapDefault
    /\ handles = [live |-> {}, dead |-> {}]
    /\ heap = WallocNew
    /\ live = {}
    /\ input_manager = InputManagerNew

\* The end of a pass: a panic aborts the analysis.
Pass(st, next) ==
    /\ pc' = IF st.abort # "" THEN "panic" ELSE next
    /\ namespaces' = st.namespaces
    /\ syms' = st.syms
    /\ errors' = st.errors
    /\ UNCHANGED <<body, tvars, node, result, visited, func_calls, string_map, gen_map, handles, heap, live, input_manager>>

CollectNames ==
    /\ pc = "collect_names"
    /\ Pass(collect_names(Checker(namespaces, syms, errors, ""),
                          <<>>, BlockNs, body, <<>>, 1), "collect_impls")

CollectImpls ==
    /\ pc = "collect_impls"
    /\ Pass(collect_impls(Checker(namespaces, syms, errors, ""),
                          <<>>, BlockScope, BlockNs, body, <<>>, 1), "collect_uses")

\* The blocks hold no `use` declaration: collect_uses binds nothing.
CollectUses ==
    /\ pc = "collect_uses"
    /\ Pass(Checker(namespaces, syms, errors, ""), "compute_types")

ComputeTypes ==
    /\ pc = "compute_types"
    /\ Pass(compute_types(Checker(namespaces, syms, errors, ""),
                          <<>>, BlockScope, BlockNs, body, <<>>, 1), "nodes")

\* A call `name()` evaluated in the block after its declarations.
CallOf(name) ==
    LET f == find_sym(Checker(namespaces, syms, errors, ""), BlockScope, name)
    IN  [kind |-> "CallFunction", id |-> <<0>>, name |-> <<f.ns, name>>,
         is_accessor |-> FALSE,
         func |-> Lookup(f.entry # NoEntry, ~f.entry.err, f.entry.sym), args |-> <<>>]

AnalyzeCall ==
    /\ pc = "nodes"
    /\ \E name \in {"A", "B", "X"} :
          LET o == CallFunctionExpr(tvars, syms, CallOf(name))
          IN  /\ node' = CallOf(name)
              /\ result' = o.res
              /\ tvars' = o.tvars
              /\ visited' = o.visited
              /\ errors' = errors \o o.errors
              /\ func_calls' = IF "func_call" \in DOMAIN o THEN Append(func_calls, o.func_call)
                               ELSE func_calls
              /\ string_map' = string_map
              /\ gen_map' = gen_map
              /\ handles' = handles
              /\ heap' = heap
              /\ live' = live
              /\ input_manager' = input_manager
    /\ pc' = "done"
    /\ UNCHANGED <<body, namespaces, syms>>

SpecDecl ==
    InitDecl /\ [][CollectNames \/ CollectImpls \/ CollectUses \/ ComputeTypes \/ AnalyzeCall]_vars

\* The name declarations of `nodes` in their own namespace, in source order, each
\* <<name, node>>: what collect_names meets in one namespace.
RECURSIVE DeclSites(_, _, _)
DeclSites(nodes, base, i) ==
    IF i > Len(nodes) THEN <<>>
    ELSE LET d == nodes[i]
             n == Append(base, i)
             here == CASE d.kind \in {"Struct", "Enum", "Function"} -> << <<d.name, n>> >>
                       [] d.kind = "Extern" -> [j \in DOMAIN d.body |-> <<d.body[j].name, n>>]
                       [] d.kind = "Attribute" -> DeclSites(d.body, n, 1)
                       [] OTHER -> <<>>
         IN  here \o DeclSites(nodes, base, i + 1)
\* The nodes of the block that declare `name` in the block's namespace.
SitesOf(name) ==
    LET Is(s) == s[1] = name
        sel == SelectSeq(DeclSites(body, <<>>, 1), Is)
    IN  [j \in DOMAIN sel |-> sel[j][2]]
DeclNames == {"A", "B"}
AfterNames == pc \in {"collect_impls", "collect_uses", "compute_types", "nodes", "done", "panic"}
\* The nodes of the NameIsAlreadyDefined reports for a name of a namespace, in order.
Redefinitions(ns_id, name) ==
    LET Is(e) == e.kind = "NameIsAlreadyDefined" /\ e.name = <<ns_id, name>>
        sel == SelectSeq(errors, Is)
    IN  [j \in DOMAIN sel |-> sel[j].node]
\* The diagnostics, other than the silent Bypass marker, that name a name.
Naming(ns_id, name) ==
    {i \in DOMAIN errors : errors[i].kind # "Bypass" /\ errors[i].name = <<ns_id, name>>}
Marked(ns_id, name) == get_sym(namespaces[ns_id], name).err

\* C4: once collect_names has scanned a block, for every name the block declares (as
\* struct, enum, function or extern function, k >= 1 times): exactly one symbol was
\* created for the name, at its first declaration; the name is bound to that
\* symbol; and the later declarations, in order, are exactly the nodes reported as
\* NameIsAlreadyDefined.
C4_FirstWins ==
    AfterNames =>
        \A name \in DeclNames :
            LET sites == SitesOf(name)
                created == {s \in DOMAIN syms :
                               syms[s].path = <<name>> /\ syms[s].node \in Range(sites)}
                bound == get_sym(namespaces[BlockNs], name)
            IN  Len(sites) >= 1 =>
                    /\ Cardinality(created) = 1
                    /\ bound # NoEntry /\ bound.sym \in created
                    /\ syms[bound.sym].node = sites[1]
                    /\ Redefinitions(BlockNs, name) = Tail(sites)

C4_Witness ==
    /\ pc = "collect_impls"
    /\ Len(body) = 3
    /\ body[1].kind = "Struct" /\ body[2].kind = "Function" /\ body[3].kind = "Enum"
    /\ SitesOf("A") = << <<1>>, <<2>>, <<3>> >>
    /\ Len(syms) = 1 /\ syms[1].node = <<1>>
    /\ Redefinitions(BlockNs, "A") = << <<2>>, <<3>> >>

\* C5 as stated: a name marked erroneous is named by at most one diagnostic (the
\* silent Bypass marker aside).
C5_Original ==
    \A ns_id \in DOMAIN namespaces : \A name \in DeclNames :
        Marked(ns_id, name) => Cardinality(Naming(ns_id, name)) <= 1

\* C5: a name marked erroneous is named by no diagnostic other than the
\* NameIsAlreadyDefined reports of its redeclarations (compute_types and a call of
\* the name add at most the silent Bypass marker); collect_names, though, reports
\* every redeclaration of the name, the third and later ones included: for a name
\* of the block, one report per declaration after the first.
C5_NoCascade ==
    AfterNames =>
        \A ns_id \in DOMAIN namespaces : \A name \in DeclNames :
            Marked(ns_id, name) =>
                /\ \A i \in Naming(ns_id, name) : errors[i].kind = "NameIsAlreadyDefined"
                /\ Cardinality(Naming(ns_id, name)) = Len(Redefinitions(ns_id, name))
                /\ ns_id = BlockNs => Redefinitions(ns_id, name) = Tail(SitesOf(name))

C5_Witness ==
    /\ pc = "done"
    /\ Len(SitesOf("A")) = 3
    /\ Marked(BlockNs, "A")
    /\ node.name = <<BlockNs, "A">>
    /\ Len(Redefinitions(BlockNs, "A")) = 2
    /\ errors[Len(errors)] = Diag(<<0>>, "Bypass", <<BlockNs, "A">>)

\* Every name declared by `nodes` is bound in the namespace compute_types will
\* look it up in.
RECURSIVE Registered(_, _)
Registered(nodes, ns_id) ==
    \A i \in DOMAIN nodes :
        LET d == nodes[i]
            st == Checker(namespaces, syms, errors, "")
            ty == dt_to_gen(st, BlockScope, d.name)
        IN  CASE d.kind \in {"Struct", "Enum", "Function"} ->
                    get_sym(namespaces[ns_id], d.name) # NoEntry
              [] d.kind = "Extern" ->
                    \A j \in DOMAIN d.body : get_sym(namespaces[ns_id], d.body[j].name) # NoEntry
              [] d.kind = "Module" ->
                    /\ get_ns(namespaces[ns_id], d.name) # 0
                    /\ Registered(d.body, get_ns(namespaces[ns_id], d.name))
              [] d.kind = "Impl" -> ty.ok => Registered(d.body, syms[ty.ty.v].ns)
              [] d.kind = "Attribute" -> Registered(d.body, ns_id)
              [] OTHER -> TRUE
FieldsOf(name) == syms[get_sym(namespaces[BlockNs], name).sym].fields

\* C3: when compute_types starts, every declaration name of the block, those of
\* nested modules and impl bodies included, is registered; and two structs of a
\* block that name each other in their fields are both filled with the other's
\* symbol, with no diagnostic, in either order.
C3_NamesBeforeTypes ==
    /\ pc = "compute_types" => Registered(body, BlockNs)
    /\ /\ pc \in {"nodes", "done"}
       /\ Len(body) = 2
       /\ {body[1], body[2]} = {Decl("Struct", "A", <<"B">>, <<>>), Decl("Struct", "B", <<"A">>, <<>>)}
       => /\ FieldsOf("A") = <<SymTy(get_sym(namespaces[BlockNs], "B").sym)>>
          /\ FieldsOf("B") = <<SymTy(get_sym(namespaces[BlockNs], "A").sym)>>
          /\ \A s \in DOMAIN syms : syms[s].fills = 1
          /\ \A i \in DOMAIN errors : errors[i].node = <<0>>

\* C6: the analysis of a block never aborts.
C6_NoAbort == pc # "panic"

\* C7: no symbol is filled (add_sym, add_enum) more than once.
C7_FilledOnce == \A s \in DOMAIN syms : syms[s].fills <= 1

(***************************************************************************)
(* Expr::CreateStruct.  n.data_type is the type the literal names (the     *)
(* outcome of dt_to_ty); each field of the literal holds its name and the  *)
(* result of its expression.                                               *)
(***************************************************************************)
\* "type check the fields": every supplied field against the declared one.
RECURSIVE CreateStructFields(_, _, _, _, _, _)
CreateStructFields(tv, n, cont, i, errs, vis) ==
    IF i > Len(n.fields) THEN Out(AnalysisResult(n.data_type, TRUE), tv, errs, vis)
    ELSE LET f == n.fields[i]
             g == CHOOSE x \in Range(cont.fields) : x.name = f.name
             c == eq(tv, f.res.ty, g.ty)
         IN  CreateStructFields(c.tvars, n, cont, i + 1,
                 IF c.ok THEN errs ELSE Append(errs, Diag(Self, "InvalidType", <<f.name>>)),
                 Append(vis, [child |-> ChildAt("field", i), binding |-> Unset]))

CreateStructExpr(tv, sy, n) ==
    LET ts == sym(tv, n.data_type)
        cont == sy[ts.s]
        Declares(name) == \E j \in DOMAIN cont.fields : cont.fields[j].name = name
        unknown == {i \in DOMAIN n.fields : ~Declares(n.fields[i].name)}
        first == CHOOSE i \in unknown : \A j \in unknown : i <= j
        Absent(x) == \A i \in DOMAIN n.fields : n.fields[i].name # x.name
        absent == SelectSeq(cont.fields, Absent)
        missing_fields == [j \in DOMAIN absent |-> absent[j].name]
    IN  IF ~ts.ok THEN Out(AnalysisError, ts.tvars, <<Diag(Self, "UnresolvedVar", <<>>)>>, <<>>)
        ELSE IF cont.kind # "Struct"
        THEN Out(AnalysisError, tv, <<Diag(Self, "StructCreationOnNonStruct", <<>>)>>, <<>>)
        ELSE IF unknown # {}
        THEN Out(AnalysisError, tv,
                 <<Diag(Self, "FieldDoesntExist", <<n.fields[first].name>>)>>, <<>>)
        ELSE IF missing_fields # <<>>
        THEN Out(AnalysisError, tv, <<Diag(Self, "MissingFields", missing_fields)>>, <<>>)
        ELSE CreateStructFields(tv, n, cont, 1, <<>>, <<>>)

\* A struct S { x: i64, y: bool } (or an enum of that shape) and a literal of up
\* to MaxArms fields.
InitStruct ==
    /\ pc = "expr"
    /\ body = NoBlock
    /\ namespaces = <<>>
    /\ syms \in {[S |-> Container(<<Field("x", I64), Field("y", BOOL)>>, k)] :
                    k \in {"Struct", "Enum"}}
    /\ tvars = NoTVars
    /\ node \in [kind : {"CreateStruct"}, data_type : {Ty("S")},
                 fields : SeqsUpTo([name : {"x", "y", "z"},
                                    res : {AnalysisResult(I64, TRUE),
                                           AnalysisResult(BOOL, TRUE)}], MaxArms)]
    /\ result = NoResult
    /\ visited = <<>>
    /\ errors = <<>>
    /\ func_calls = <<>>
    /\ string_map = with_capacity.sm
    /\ gen_map = GenMapDefault
    /\ handles = [live |-> {}, dead |-> {}]
    /\ heap = WallocNew
    /\ live = {}
    /\ input_manager = InputManagerNew

EvalStruct ==
    /\ pc = "expr"
    /\ node.kind = "CreateStruct"
    /\ Finish(CreateStructExpr(tvars, syms, node))

SpecStruct == InitStruct /\ [][EvalStruct]_vars

\* How often the literal supplies a field name.
Supplied(name) == Cardinality({i \in DOMAIN node.fields : node.fields[i].name = name})
StructDeclared == {syms.S.fields[j].name : j \in DOMAIN syms.S.fields}
StructOmitted ==
    LET Absent(x) == Supplied(x.name) = 0
        sel == SelectSeq(syms.S.fields, Absent)
    IN  [j \in DOMAIN sel |-> sel[j].name]
StructUnknown == {i \in DOMAIN node.fields : node.fields[i].name \notin StructDeclared}

\* C11: a struct literal without diagnostic supplies every declared field exactly
\* once; a literal that omits declared fields (and names no undeclared one) reports
\* MissingFields with exactly the omitted fields; a literal naming an undeclared
\* field reports FieldDoesntExist; a literal supplying a field more than once
\* reports something.
C11_StructLiteral ==
    (pc = "done" /\ node.kind = "CreateStruct" /\ syms.S.kind = "Struct") =>
        /\ errors = <<>> =>
              /\ StructUnknown = {}
              /\ \A name \in StructDeclared : Supplied(name) = 1
        /\ (StructUnknown = {} /\ StructOmitted # <<>>) =>
              errors = <<Diag(Self, "MissingFields", StructOmitted)>>
        /\ StructUnknown # {} =>
              /\ Len(errors) = 1 /\ errors[1].kind = "FieldDoesntExist"
              /\ \E i \in StructUnknown : errors[1].name = <<node.fields[i].name>>
        /\ (\E name \in StructDeclared : Supplied(name) > 1) => errors # <<>>

(***************************************************************************)
(* The walk of a block of expressions and statements.  A node is a record  *)
(* [kind, name, ty, is_mut, inout, body]; its id is its index path.  A     *)
(* scope is its chain of markers, innermost first: pushing a scope puts a  *)
(* marker in front, and no marker is ever changed.                         *)
(***************************************************************************)
Node(kind, name, ty, is_mut, inout, nodes) ==
    [kind |-> kind, name |-> name, ty |-> ty, is_mut |-> is_mut, inout |-> inout,
     body |-> nodes]
Scope(kind, name, ty, is_mut) == [kind |-> kind, name |-> name, ty |-> ty, is_mut |-> is_mut]
NoScope == Scope("none", "", Unset, FALSE)
\* Variant of the lookup (below) that returns the outermost marker.
RECURSIVE find_scope_Outermost(_, _, _)
find_scope_Outermost(scope, kind, name) ==
    IF scope = <<>> THEN NoScope
    ELSE LET outer == find_scope_Outermost(Tail(scope), kind, name)
         IN  IF outer # NoScope THEN outer
             ELSE IF Head(scope).kind = kind /\ Head(scope).name = name THEN Head(scope)
             ELSE NoScope

\* Scope::find_var, find_curr_func and find_loop: the nearest marker of a kind
\* (and, for a variable, of a name) on the chain.
RECURSIVE find_scope(_, _, _)
find_scope(scope, kind, name) ==
    IF scope = <<>> THEN NoScope
    ELSE IF Head(scope).kind = kind /\ Head(scope).name = name THEN Head(scope)
    ELSE find_scope(Tail(scope), kind, name)

\* A type with generic arguments, and Sym::gens.
App(s, args) == [k |-> "ty", s |-> s, v |-> args]
gens(t) == IF t.s \in {"option", "pair"} THEN t.v ELSE <<>>

\* The outcome of a node: the walk so far, the node's result, the scope after it.
Walk(errs, vis, abort) == [errors |-> errs, visited |-> vis, abort |-> abort]
Ret(st, res, scope) == [st |-> st, res |-> res, scope |-> scope]
\* The record of an evaluated node: its id and the type it evaluated to.
visit(r, id) ==
    Once(r, LAMBDA x : [x EXCEPT !.st.visited = Append(@, [child |-> id, binding |-> x.res.ty])])
report(st, id, kind, name) == [st EXCEPT !.errors = Append(@, Diag(id, kind, name))]

RECURSIVE expr(_, _, _, _)
RECURSIVE stmt(_, _, _, _)
RECURSIVE decl(_, _, _, _)
RECURSIVE block_nodes(_, _, _, _, _, _)

\* TyChecker::block: the nodes of a block in order, in a scope of its own; a
\* statement may extend the scope of the nodes after it.
block_nodes(st, scope, nodes, id, i, last) ==
    IF i > Len(nodes) \/ st.abort THEN Ret(st, last, scope)
    ELSE Once(CASE nodes[i].kind \in {"Variable", "UpdateValue", "ForLoop"} ->
                      stmt(st, scope, nodes[i], Append(id, i))
                [] nodes[i].kind = "Function" -> decl(st, scope, nodes[i], Append(id, i))
                [] OTHER -> expr(st, scope, nodes[i], Append(id, i)),
              LAMBDA r : block_nodes(r.st, r.scope, nodes, id, i + 1, r.res))
\* Variant of the block (below) whose scope outlives it.
block_Leaky(st, scope, nodes, id) ==
    block_nodes(st, <<Scope("ImplicitNamespace", "", Unset, FALSE)>> \o scope, nodes, id, 1,
                AnalysisResult(UNIT, TRUE))

\* The scope of the block is a local of the call: the caller's scope is as before.
block(st, scope, nodes, id) ==
    [block_nodes(st, <<Scope("ImplicitNamespace", "", Unset, FALSE)>> \o scope, nodes, id, 1,
                 AnalysisResult(UNIT, TRUE)) EXCEPT !.scope = scope]

expr(st, scope, n, id) ==
    LET Err(kind, name) == Ret(report(st, id, kind, name), AnalysisError, scope)
        var == find_scope(scope, "VariableScope", n.name)
        func == find_scope(scope, "Function", "")
    IN  visit(
        CASE n.kind = "Literal" -> Ret(st, AnalysisResult(n.ty, TRUE), scope)
          [] n.kind = "Identifier" ->
                IF var = NoScope THEN Err("VariableNotFound", n.name)
                ELSE Ret(st, AnalysisResult(var.ty, var.is_mut), scope)
          [] n.kind = "Block" -> block(st, scope, n.body, id)
          [] n.kind = "Loop" ->
                Ret(block(st, <<Scope("Loop", "", Unset, FALSE)>> \o scope, n.body, id).st,
                    AnalysisResult(UNIT, TRUE), scope)
          [] n.kind = "Return" ->
                IF func = NoScope THEN Err("OutsideOfAFunction", "")
                ELSE Once(expr(st, scope, n.body[1], Append(id, 1)), LAMBDA value :
                        IF is_err(NoTVars, value.res.ty) THEN Ret(value.st, AnalysisError, scope)
                        ELSE IF is_never(NoTVars, value.res.ty)
                        THEN Ret(value.st, AnalysisNever, scope)
                        ELSE IF ~eq(NoTVars, value.res.ty, func.ty).ok
                        THEN Ret(report(value.st, id, "ReturnAndFuncTypDiffer", ""),
                                 AnalysisError, scope)
                        ELSE Ret(value.st, AnalysisResult(NEVER, TRUE), scope))
          [] n.kind \in {"Continue", "Break"} ->
                IF find_scope(scope, "Loop", "") = NoScope THEN Err("ContinueOutsideOfLoop", "")
                ELSE Ret(st, AnalysisResult(NEVER, TRUE), scope),
        id)

\* Stmt::ForLoop once the iterated expression is evaluated.  inout is the marker
\* of the iterated value, is_mut that of the binding, body[1] the iterated
\* expression and the rest the loop's body.  The iterated types declare no
\* generic parameter: `next`'s return type is taken as declared.
ForLoop(anal, scope, n, id) ==
    LET f1 == IF ~anal.res.is_mut /\ n.inout
              THEN report(anal.st, id, "InOutValueIsntMut", "") ELSE anal.st
        f2 == IF n.inout /\ ~n.is_mut
              THEN report(f1, id, "InOutValueWithoutInOutBinding", "") ELSE f1
        f3 == IF ~n.inout /\ n.is_mut
              THEN report(f2, id, "InOutBindingWithoutInOutValue", "") ELSE f2
        ns == IF anal.res.ty.s = "sym" THEN namespaces[syms[anal.res.ty.v].ns]
              ELSE Namespace(<<>>)
        next == get_sym(ns, "next")
        loop_body == Tail(n.body)
        bypass == [f3 EXCEPT !.errors = Append(@, Diag(id, "ValueIsntAnIterator", "")) \o
                      [j \in DOMAIN loop_body |-> Diag(id \o <<2, j>>, "Bypass", "")]]
        f4 == IF n.inout /\ get_sym(ns, "mutate") = NoEntry
              THEN report(f3, id, "ValueIsntAMutableIterator", "") ELSE f3
        binding_ty == gens(syms[next.sym].ret)
    IN  IF next = NoEntry THEN bypass
        ELSE IF next.err THEN f3
        ELSE IF syms[next.sym].kind # "Function" \/ binding_ty = <<>>
        THEN [f4 EXCEPT !.abort = TRUE]
        ELSE block(f4, <<Scope("VariableScope", n.name, binding_ty[1], n.is_mut)>> \o scope,
                   loop_body, Append(id, 2)).st

\* Stmt::Variable without a type hint, Stmt::UpdateValue and Stmt::ForLoop.
stmt(st, scope, n, id) ==
    LET Unit(s) == Ret(s, AnalysisResult(UNIT, TRUE), scope)
        Update(lhs, rhs) ==
            LET u1 == IF ~lhs.res.is_mut THEN report(rhs.st, id, "ValueUpdateNotMut", "")
                      ELSE rhs.st
            IN  IF ~eq(NoTVars, lhs.res.ty, rhs.res.ty).ok
                THEN report(u1, id, "InvalidType", "") ELSE u1
    IN  visit(
        CASE n.kind = "Variable" ->
                Once(expr(st, scope, n.body[1], Append(id, 1)), LAMBDA rhs :
                    Ret(rhs.st, AnalysisResult(UNIT, TRUE),
                        <<Scope("VariableScope", n.name,
                                IF is_err(NoTVars, rhs.res.ty) THEN ERROR ELSE rhs.res.ty,
                                n.is_mut)>> \o scope))
          [] n.kind = "UpdateValue" ->
                Once(expr(st, scope, n.body[1], Append(id, 1)), LAMBDA lhs :
                    Once(expr(lhs.st, scope, n.body[2], Append(id, 2)), LAMBDA rhs :
                        Unit(Update(lhs, rhs))))
          [] n.kind = "ForLoop" ->
                Once(expr(st, scope, n.body[1], Append(id, 1)), LAMBDA anal :
                    Unit(ForLoop(anal, scope, n, id))),
        id)

\* Decl::Function, as a statement of a block: the body is a block in the scope
\* of the function, whose type must be the declared return type.  The functions
\* of the model take no argument and no generic parameter.
decl(st, scope, n, id) ==
    visit(Once(block(st, <<Scope("Function", "", n.ty, FALSE)>> \o scope, n.body, id),
               LAMBDA b : Ret(IF ~eq(NoTVars, b.res.ty, n.ty).ok
                              THEN report(b.st, id, "FunctionBodyAndReturnMismatch", "")
                              ELSE b.st,
                              AnalysisResult(UNIT, TRUE), scope)),
          id)

\* The tables of a block that iterates over a value of struct It: the namespace
\* of It may hold `next` (usable, or marked erroneous) and `mutate`; ret is the
\* declared return type of `next`.
IterTables(next, mutate, ret) ==
    [namespaces |->
        <<Namespace(<<>>),
          [Namespace(<<"It">>) EXCEPT !.syms =
              (IF next = "none" THEN {}
               ELSE {[name |-> "next", sym |-> 2, err |-> next = "err"]})
              \cup (IF mutate THEN {[name |-> "mutate", sym |-> 3, err |-> FALSE]} ELSE {})],
          Namespace(<<"It", "next">>), Namespace(<<"It", "mutate">>)>>,
     syms |->
        <<[Symbol(<<"It">>, 2, <<0>>) EXCEPT !.kind = "Struct", !.fills = 1],
          [Symbol(<<"It", "next">>, 3, <<0>>) EXCEPT !.kind = "Function", !.fills = 1,
                                                     !.ret = ret],
          [Symbol(<<"It", "mutate">>, 4, <<0>>) EXCEPT !.kind = "Function", !.fills = 1]>>]
\* The scope of the block: a mutable and an immutable variable of type It.
RootScope ==
    <<Scope("VariableScope", "it", SymTy(1), TRUE),
      Scope("VariableScope", "c", SymTy(1), FALSE)>>

MaxStmts == 2
\* The nodes a block is drawn from; a function is declared as `f`.
Stmts ==
    LET Lit(ty) == Node("Literal", "", ty, FALSE, FALSE, <<>>)
        Ident(name) == Node("Identifier", name, Unset, FALSE, FALSE, <<>>)
        Break == Node("Break", "", Unset, FALSE, FALSE, <<>>)
        Continue == Node("Continue", "", Unset, FALSE, FALSE, <<>>)
        Let(ty, is_mut) == Node("Variable", "x", Unset, is_mut, FALSE, <<Lit(ty)>>)
        Update(ty) == Node("UpdateValue", "", Unset, FALSE, FALSE, <<Ident("x"), Lit(ty)>>)
        Return(e) == Node("Return", "", Unset, FALSE, FALSE, <<e>>)
        Loop(b) == Node("Loop", "", Unset, FALSE, FALSE, b)
        Block(b) == Node("Block", "", Unset, FALSE, FALSE, b)
        For(b) == Node("ForLoop", "x", Unset, FALSE, FALSE, <<Ident("it")>> \o b)
        Function(ret, b) == Node("Function", "f", ret, FALSE, FALSE, b)
    IN  {Ident("x"), Break, Let(BOOL, FALSE), Let(STR, TRUE), Update(STR), Update(BOOL),
         Return(Ident("x")), Return(Lit(STR))}
        \cup {Loop(b) : b \in {<<Break>>, <<Continue>>, <<Block(<<Break>>)>>,
                               <<For(<<Continue>>)>>, <<Let(STR, TRUE)>>}}
        \cup {For(b) : b \in {<<Break>>, <<Continue>>, <<Ident("x")>>, <<Return(Ident("x"))>>,
                              <<Let(STR, TRUE), Ident("x")>>}}
        \cup {Block(b) : b \in {<<Let(STR, TRUE), Ident("x")>>, <<Ident("x"), Let(STR, TRUE)>>,
                                <<Continue>>,
                                <<Let(BOOL, FALSE), Block(<<Let(STR, TRUE), Ident("x")>>),
                                  Ident("x")>>}}
        \cup {Function(STR, b) :
                b \in {<<Return(Lit(STR))>>, <<Return(Lit(BOOL))>>, <<Continue>>,
                       <<Function(BOOL, <<Return(Lit(STR))>>), Return(Lit(STR))>>,
                       <<Function(BOOL, <<Return(Lit(BOOL))>>), Return(Lit(STR))>>,
                       <<Return(Ident("u"))>>, <<Return(Return(Lit(STR)))>>,
                       <<For(<<Return(Ident("x"))>>), Lit(STR)>>}}
\* A block of up to MaxStmts nodes over a well-formed iterator, declaring at most
\* one function, or one for-loop `for x in e { x }` over any of the tables.
InitBlock ==
    /\ pc = "block"
    /\ \E next \in {"none", "ok", "err"}, mutate \in BOOLEAN,
          ret \in {App("option", <<BOOL>>), App("pair", <<STR, BOOL>>), BOOL} :
          /\ namespaces = IterTables(next, mutate, ret).namespaces
          /\ syms = IterTables(next, mutate, ret).syms
          /\ \/ body \in
                  {<<Node("ForLoop", "x", Unset, b, i,
                          <<e, Node("Identifier", "x", Unset, FALSE, FALSE, <<>>)>>)>> :
                      b \in BOOLEAN, i \in BOOLEAN,
                      e \in {Node("Identifier", name, Unset, FALSE, FALSE, <<>>) :
                                 name \in {"it", "c", "u"}}
                            \cup {Node("Literal", "", BOOL, FALSE, FALSE, <<>>)}}
             \/ /\ next = "ok" /\ mutate /\ ret = App("option", <<BOOL>>)
                /\ body \in SeqsUpTo(Stmts, MaxStmts)
                /\ Cardinality({j \in DOMAIN body : body[j].kind = "Function"}) <= 1
    /\ tvars = NoTVars
    /\ node = NoNode
    /\ result = NoResult
    /\ visited = <<>>
    /\ errors = <<>>
    /\ func_calls = <<>>
    /\ string_map = with_capacity.sm
    /\ gen_map = GenMapDefault
    /\ handles = [live |-> {}, dead |-> {}]
    /\ heap = WallocNew
    /\ live = {}
    /\ input_manager = InputManagerNew

\* Variant of the walk (below) that never reaches the end of the block.
EvalBlock_Again ==
    /\ pc = "block"
    /\ UNCHANGED vars

\* TyChecker::block on the nodes of the block; an abort ends the analysis.
EvalBlock ==
    /\ pc = "block"
    /\ LET r == block(Walk(<<>>, <<>>, FALSE), RootScope, body, <<>>)
       IN  /\ pc' = IF r.st.abort THEN "panic" ELSE "done"
           /\ result' = r.res
           /\ visited' = r.st.visited
           /\ errors' = r.st.errors
    /\ UNCHANGED <<body, namespaces, syms, tvars, node, func_calls, string_map, gen_map, handles, heap, live, input_manager>>

SpecBlock == InitBlock /\ [][EvalBlock]_vars

\* The nodes of the block, each with its id: the iterated expression of a for-loop
\* is its child 1, the nodes of its body are the children <<2, j>>.
RECURSIVE Nodes(_, _)
Nodes(n, id) ==
    {[id |-> id, n |-> n]}
    \cup UNION {Nodes(n.body[j], IF n.kind = "ForLoop" /\ j > 1 THEN id \o <<2, j - 1>>
                                 ELSE Append(id, j)) : j \in DOMAIN n.body}
BodyNodes == UNION {Nodes(body[j], <<j>>) : j \in DOMAIN body}
IsPrefix(p, q) == Len(p) < Len(q) /\ SubSeq(q, 1, Len(p)) = p
\* The types the node evaluated to, one per evaluation, and its diagnostics.
TypesOf(id) ==
    LET Is(e) == e.child = id
        sel == SelectSeq(visited, Is)
    IN  [j \in DOMAIN sel |-> sel[j].binding]
DiagsOf(id) ==
    LET Is(e) == e.node = id
        sel == SelectSeq(errors, Is)
    IN  [j \in DOMAIN sel |-> sel[j].kind]
\* Is the node inside the body of a `loop` or of a for-loop ?
InLoop(id) ==
    \E e \in BodyNodes :
        /\ IsPrefix(e.id, id)
        /\ \/ e.n.kind = "Loop"
           \/ e.n.kind = "ForLoop" /\ id[Len(e.id) + 1] = 2

\* C12: an evaluated break or continue is accepted, with type NEVER and no
\* diagnostic, when it is inside the body of a `loop` or of a for-loop; otherwise
\* it gets one outside-of-loop diagnostic and the type ERROR.
C12_BreakContinue ==
    pc = "done" =>
        \A e \in BodyNodes :
            (e.n.kind \in {"Break", "Continue"} /\ TypesOf(e.id) # <<>>) =>
                IF InLoop(e.id)
                THEN TypesOf(e.id) = <<NEVER>> /\ DiagsOf(e.id) = <<>>
                ELSE TypesOf(e.id) = <<ERROR>> /\ DiagsOf(e.id) = <<"ContinueOutsideOfLoop">>


\* The functions that enclose a node, and the nearest of them.
Enclosing(id) == {e \in BodyNodes : e.n.kind = "Function" /\ IsPrefix(e.id, id)}
Nearest(id) == CHOOSE f \in Enclosing(id) : \A g \in Enclosing(id) : Len(g.id) <= Len(f.id)

\* C13: an evaluated return with no enclosing function gets OutsideOfAFunction;
\* inside functions the nearest one decides: a value whose type is neither ERROR
\* nor NEVER and differs from its declared return type gets exactly one
\* ReturnAndFuncTypDiffer; a value of the declared type makes the return NEVER
\* with no diagnostic.
C13_Return ==
    pc = "done" =>
        \A e \in BodyNodes :
            (e.n.kind = "Return" /\ TypesOf(e.id) # <<>>) =>
                IF Enclosing(e.id) = {}
                THEN DiagsOf(e.id) = <<"OutsideOfAFunction">>
                ELSE LET ret == Nearest(e.id).n.ty
                         value == TypesOf(Append(e.id, 1))
                     IN  /\ Len(value) = 1
                         /\ (value[1] \notin {ERROR, NEVER} /\ value[1] # ret)
                               => DiagsOf(e.id) = <<"ReturnAndFuncTypDiffer">>
                         /\ value[1] = ret
                               => TypesOf(e.id) = <<NEVER>> /\ DiagsOf(e.id) = <<>>

\* `return "s"` outside a function, then a function returning str that declares a
\* function returning bool: the return of a str in the inner function is
\* reported, the return of a str in the outer one is accepted.
C13_Witness ==
    /\ pc = "done"
    /\ Len(body) = 2
    /\ body[1].kind = "Return" /\ body[2].kind = "Function" /\ body[2].ty = STR
    /\ DiagsOf(<<1>>) = <<"OutsideOfAFunction">>
    /\ \E e \in BodyNodes :
          /\ e.n.kind = "Return" /\ Len(e.id) = 3
          /\ Nearest(e.id).n.ty = BOOL
          /\ TypesOf(Append(e.id, 1)) = <<STR>>
          /\ DiagsOf(e.id) = <<"ReturnAndFuncTypDiffer">>
    /\ \E e \in BodyNodes :
          /\ e.n.kind = "Return" /\ Len(e.id) = 2
          /\ TypesOf(Append(e.id, 1)) = <<STR>>
          /\ TypesOf(e.id) = <<NEVER>> /\ DiagsOf(e.id) = <<>>


\* C15: for a block that is one for-loop `for x in e { x }` over a value of type
\* It: the loop is accepted, its body evaluated, only when It's namespace has a
\* usable `next` whose return type is Option-shaped, and then x has the payload
\* type of that Option; without `next` the loop is reported as
\* ValueIsntAnIterator; an inout iteration without `mutate` is reported as
\* ValueIsntAMutableIterator.
C15_ForLoop ==
    (/\ pc \in {"done", "panic"}
     /\ Len(body) = 1 /\ body[1].kind = "ForLoop"
     /\ body[1].body[2].kind = "Identifier" /\ body[1].body[2].name = body[1].name
     /\ TypesOf(<<1, 1>>) = <<SymTy(1)>>) =>
        LET next == get_sym(namespaces[2], "next")
            mutate == get_sym(namespaces[2], "mutate")
            ret == syms[2].ret
            bound == TypesOf(<<1, 2, 1>>)
        IN  /\ (pc = "done" /\ bound # <<>>) =>
                  /\ next # NoEntry /\ ~next.err
                  /\ ret.s = "option" /\ bound = <<ret.v[1]>>
            /\ next = NoEntry => "ValueIsntAnIterator" \in Range(DiagsOf(<<1>>))
            /\ (body[1].inout /\ next # NoEntry /\ ~next.err /\ mutate = NoEntry)
                  => "ValueIsntAMutableIterator" \in Range(DiagsOf(<<1>>))


\* C16: no node of the block is reported more than once.
C16_OneDiagnostic == pc = "done" => \A e \in BodyNodes : Len(DiagsOf(e.id)) <= 1

\* C17: the analysis of a block evaluates every node of the block exactly once.
C17_WalkedOnce == pc = "done" => \A e \in BodyNodes : Len(TypesOf(e.id)) = 1


\* The bindings of `name` that are lexically visible at a node: the variable
\* statements before it in an enclosing block, and the bindings of the for-loops
\* whose body it is in; each with its nesting depth and position.
Visible(id, name) ==
    {[depth |-> Len(e.id), pos |-> e.id[Len(e.id)], ty |-> e.n.body[1].ty, is_mut |-> e.n.is_mut] :
        e \in {d \in BodyNodes :
                  /\ d.n.kind = "Variable" /\ d.n.name = name
                  /\ Len(d.id) <= Len(id)
                  /\ SubSeq(d.id, 1, Len(d.id) - 1) = SubSeq(id, 1, Len(d.id) - 1)
                  /\ d.id[Len(d.id)] < id[Len(d.id)]}}
    \cup {[depth |-> Len(e.id) + 1, pos |-> 0, ty |-> gens(syms[2].ret)[1], is_mut |-> e.n.is_mut] :
             e \in {d \in BodyNodes :
                       /\ d.n.kind = "ForLoop" /\ d.n.name = name
                       /\ IsPrefix(Append(d.id, 2), id)}}
\* The innermost, latest of them.
Innermost(id, name) ==
    CHOOSE b \in Visible(id, name) :
        \A c \in Visible(id, name) :
            c.depth < b.depth \/ (c.depth = b.depth /\ c.pos <= b.pos)

\* C20: an evaluated identifier x has the type of the innermost, latest binding of
\* x that is lexically visible at it, and VariableNotFound if there is none: a
\* binding of a nested block hides the outer ones inside that block and is gone
\* after it.  The mutability is that of the same binding: an assignment to x is
\* reported as ValueUpdateNotMut exactly when that binding is immutable.
C20_Shadowing ==
    pc = "done" =>
        \A e \in BodyNodes :
            /\ (e.n.kind = "Identifier" /\ e.n.name = "x" /\ TypesOf(e.id) # <<>>) =>
                  IF Visible(e.id, "x") = {}
                  THEN TypesOf(e.id) = <<ERROR>> /\ DiagsOf(e.id) = <<"VariableNotFound">>
                  ELSE TypesOf(e.id) = <<Innermost(e.id, "x").ty>> /\ DiagsOf(e.id) = <<>>
            /\ (e.n.kind = "UpdateValue" /\ TypesOf(e.id) # <<>>) =>
                  ("ValueUpdateNotMut" \in Range(DiagsOf(e.id))
                      <=> /\ Visible(Append(e.id, 1), "x") # {}
                          /\ ~Innermost(Append(e.id, 1), "x").is_mut)

\* `{ let x = true; { let mut x = "s"; x }; x }` followed by `x = "s"`: x is str
\* in the inner block, bool after it, and unknown after the outer block.
C20_Witness ==
    /\ pc = "done" /\ Len(body) = 2
    /\ body[1].kind = "Block" /\ Len(body[1].body) = 3
    /\ body[1].body[1].kind = "Variable" /\ body[1].body[2].kind = "Block"
    /\ TypesOf(<<1, 2, 2>>) = <<STR>>
    /\ TypesOf(<<1, 3>>) = <<BOOL>>
    /\ body[2].kind = "UpdateValue"
    /\ TypesOf(<<2, 1>>) = <<ERROR>>
    /\ DiagsOf(<<2, 1>>) = <<"VariableNotFound">>


(***************************************************************************)
(* Expr::UnaryOp, and chains of nested operators: an evaluated expression  *)
(* becomes an operand of the unary operator, binary operator or if that    *)
(* encloses it.                                                            *)
(***************************************************************************)
\* Variant of the handler (below) that reports an operator applied to ERROR.
UnaryOpExpr_Report(tv, n) ==
    LET rs == sym(tv, n.rhs.ty)
    IN  IF ~rs.ok THEN Out(AnalysisError, rs.tvars, <<Diag(Self, "UnresolvedVar", "")>>, <<V("rhs")>>)
        ELSE IF rs.s = "never" THEN Out(AnalysisNever, rs.tvars, <<>>, <<V("rhs")>>)
        ELSE IF (n.operator = "Not" /\ rs.s = "bool") \/ (n.operator = "Neg" /\ rs.s \in {"i64", "i32"})
        THEN Out(AnalysisResult(n.rhs.ty, TRUE), rs.tvars, <<>>, <<V("rhs")>>)
        ELSE Out(AnalysisError, rs.tvars, <<Diag(Self, "InvalidUnaryOp", "")>>, <<V("rhs")>>)

UnaryOpExpr(tv, n) ==
    LET rs == sym(tv, n.rhs.ty)
    IN  IF ~rs.ok THEN Out(AnalysisError, rs.tvars, <<Diag(Self, "UnresolvedVar", "")>>, <<V("rhs")>>)
        ELSE IF rs.s = "err" THEN Out(AnalysisError, rs.tvars, <<>>, <<V("rhs")>>)
        ELSE IF rs.s = "never" THEN Out(AnalysisNever, rs.tvars, <<>>, <<V("rhs")>>)
        ELSE IF (n.operator = "Not" /\ rs.s = "bool") \/ (n.operator = "Neg" /\ rs.s \in {"i64", "i32"})
        THEN Out(AnalysisResult(n.rhs.ty, TRUE), rs.tvars, <<>>, <<V("rhs")>>)
        ELSE Out(AnalysisError, rs.tvars, <<Diag(Self, "InvalidUnaryOp", "")>>, <<V("rhs")>>)

MaxDepth == 2
\* The expressions at nesting depth d that have an expression of result r as an
\* operand or condition; their other operands are evaluated results too.
Parents(r, d) ==
    [kind : {"UnaryOp"}, operator : {"Not", "Neg"}, rhs : {r}, depth : {d}]
    \cup [kind : {"BinaryOp"}, operator : {"Add", "Eq"}, lhs : {r},
          rhs : {AnalysisResult(t, TRUE) : t \in {ERROR, NEVER, I64}}, depth : {d}]
    \cup [kind : {"BinaryOp"}, operator : {"Add", "Eq"},
          lhs : {AnalysisResult(t, TRUE) : t \in {ERROR, NEVER, I64}}, rhs : {r}, depth : {d}]
    \cup [kind : {"If"}, condition : {r}, body : {AnalysisResult(BOOL, TRUE)},
          else_block : {AnalysisResult(BOOL, TRUE), NoResult}, depth : {d}]

InitCascade ==
    /\ pc = "expr"
    /\ ExprIdle
    /\ tvars \in [{1} -> [sub : {"none", "integer"}, val : {Unset}]]
    /\ node \in UNION {Parents(AnalysisResult(t, TRUE), 1) :
                          t \in {UNIT, ERROR, NEVER, BOOL, I64, Var(1)}}
    /\ result = NoResult
    /\ visited = <<>>
    /\ errors = <<>>
    /\ func_calls = <<>>
    /\ string_map = with_capacity.sm
    /\ gen_map = GenMapDefault
    /\ handles = [live |-> {}, dead |-> {}]
    /\ heap = WallocNew
    /\ live = {}
    /\ input_manager = InputManagerNew

EvalUnaryOp ==
    /\ pc = "expr"
    /\ node.kind = "UnaryOp"
    /\ Finish(UnaryOpExpr(tvars, node))

\* The evaluated expression is an operand of the expression around it.
Wrap ==
    /\ pc = "done"
    /\ node.depth < MaxDepth
    /\ pc' = "expr"
    /\ node' \in Parents(result, node.depth + 1)
    /\ result' = NoResult
    /\ UNCHANGED <<body, namespaces, syms, tvars, visited, errors, func_calls, string_map, gen_map, handles, heap, live, input_manager>>

SpecCascade == InitCascade /\ [][EvalIf \/ EvalBinaryOp \/ EvalUnaryOp \/ Wrap]_vars

\* The operands of the node in evaluation order (the condition of an if).
Operands ==
    CASE node.kind = "UnaryOp" -> <<node.rhs.ty>>
      [] node.kind = "BinaryOp" -> <<node.lhs.ty, node.rhs.ty>>
      [] node.kind = "If" -> <<node.condition.ty>>
IsBottom(t) == is_err(tvars, t) \/ is_never(tvars, t)
Evaluates == pc = "expr" /\ pc' = "done"

\* C18 as stated: an operand of type ERROR makes the parent ERROR, an operand of
\* type NEVER makes it NEVER, either way with no new diagnostic.
C18_Original ==
    [][Evaluates =>
          /\ (\E i \in DOMAIN Operands : is_err(tvars, Operands[i]))
                => (errors' = errors /\ result'.ty = ERROR)
          /\ (\E i \in DOMAIN Operands : is_never(tvars, Operands[i]))
                => (errors' = errors /\ result'.ty = NEVER)]_vars

\* C18: when an operand of a unary or binary operator, or the condition of an
\* if, has type ERROR or NEVER, the parent reports nothing and has the type of
\* the first such operand in evaluation order (lhs before rhs): ERROR for ERROR,
\* NEVER for NEVER.  So a chain of nested operators around one failing
\* expression carries one diagnostic.
C18_Cascade ==
    /\ [][Evaluates =>
             \A i \in DOMAIN Operands :
                 (IsBottom(Operands[i]) /\ \A j \in 1 .. i - 1 : ~IsBottom(Operands[j]))
                     => /\ errors' = errors
                        /\ result'.ty = instance(tvars, Operands[i])]_vars
    /\ [](Len(errors) <= 1)

\* `-true` is reported and is ERROR; `(never-typed) + (-true)` around it is NEVER,
\* with no further diagnostic.
C18_Witness ==
    /\ pc = "done" /\ node.kind = "BinaryOp" /\ node.depth = 2
    /\ node.lhs.ty = NEVER /\ node.rhs.ty = ERROR
    /\ result.ty = NEVER
    /\ errors = <<Diag(Self, "InvalidUnaryOp", "")>>


(***************************************************************************)
(* The interner under any sequence of insert and get calls.                *)
(***************************************************************************)
Strings == {BuiltIns[i][1] : i \in DOMAIN BuiltIns} \cup {"x", "y", "to", "foo", "bar"}

InitStringMap ==
    /\ pc = IF with_capacity.ok THEN "run" ELSE "panic"
    /\ string_map = with_capacity.sm
    /\ gen_map = GenMapDefault
    /\ handles = [live |-> {}, dead |-> {}]
    /\ heap = WallocNew
    /\ live = {}
    /\ input_manager = InputManagerNew
    /\ ExprIdle
    /\ tvars = <<>>
    /\ node = NoNode
    /\ result = [call |-> "with_capacity", value |-> "", index |-> 0]
    /\ visited = <<>>
    /\ errors = <<>>
    /\ func_calls = <<>>

Insert ==
    /\ pc = "run"
    /\ \E value \in Strings :
          /\ \/ HashStr(value) \in DOMAIN string_map.map
             \/ Len(string_map.vec) < Len(BuiltIns) + MaxStrings
          /\ LET r == insert(string_map, value)
             IN  /\ string_map' = r.sm
                 /\ result' = [call |-> "insert", value |-> value, index |-> r.index]
    /\ UNCHANGED <<pc, body, namespaces, syms, tvars, node, visited, errors, func_calls,
                   gen_map, handles, heap, live, input_manager>>

\* `&self.vec[index]`: an index that was never handed out is out of bounds.
Get ==
    /\ pc = "run"
    /\ \E index \in 0 .. Len(string_map.vec) :
          IF index < Len(string_map.vec)
          THEN /\ result' = [call |-> "get", value |-> get(string_map, index), index |-> index]
               /\ pc' = pc
          ELSE /\ result' = [call |-> "get", value |-> "", index |-> index]
               /\ pc' = "panic"
    /\ UNCHANGED <<body, namespaces, syms, tvars, node, visited, errors, func_calls, string_map, gen_map, handles, heap, live, input_manager>>

SpecStringMap == InitStringMap /\ [][Insert \/ Get]_vars

\* The strings of vec are distinct, and map takes exactly their keys to their
\* positions.
Bijection(sm) ==
    /\ \A i, j \in DOMAIN sm.vec : sm.vec[i] = sm.vec[j] => i = j
    /\ DOMAIN sm.map = {HashStr(sm.vec[i]) : i \in DOMAIN sm.vec}
    /\ \A i \in DOMAIN sm.vec : sm.map[HashStr(sm.vec[i])] = i - 1

\* C19: after any sequence of insert calls the interner is a bijection between
\* the strings inserted and the indices 0 .. len() - 1; the built-in names keep
\* their reserved indices; get(insert(s)) = s; an insert never moves or drops
\* an interned string; inserting a string that is present returns the index it
\* has and changes nothing, inserting a new one returns len() and adds one.
C19_Interner ==
    /\ [](/\ pc # "panic" => Bijection(string_map)
          /\ \A i \in DOMAIN BuiltIns :
                /\ get(string_map, BuiltIns[i][2]) = BuiltIns[i][1]
                /\ insert(string_map, BuiltIns[i][1]).index = BuiltIns[i][2]
          /\ result.call = "insert" => get(string_map, result.index) = result.value)
    /\ [][/\ SubSeq(string_map'.vec, 1, Len(string_map.vec)) = string_map.vec
          /\ (result'.call = "insert" /\ result' # result) =>
                IF \E i \in DOMAIN string_map.vec : string_map.vec[i] = result'.value
                THEN /\ string_map' = string_map
                     /\ string_map.vec[result'.index + 1] = result'.value
                ELSE /\ result'.index = Len(string_map.vec)
                     /\ Len(string_map'.vec) = Len(string_map.vec) + 1]_vars

\* "x", then "y", then "x" again: the second insert of "x" returns its first
\* index, the one after the built-ins, and the length stays at two more.
C19_Witness ==
    /\ pc = "run"
    /\ result = [call |-> "insert", value |-> "x", index |-> Len(BuiltIns)]
    /\ Len(string_map.vec) = Len(BuiltIns) + 2
    /\ get(string_map, Len(BuiltIns) + 1) = "y"
    /\ get(string_map, 1) = "true" /\ get(string_map, 4) = "bool"
    /\ get(string_map, 6) = "int" /\ get(string_map, 9) = "ok"
    /\ get(string_map, 11) = "some"


(***************************************************************************)
(* Termination: the analysis of a block, as the sequence of its passes and *)
(* as the walk of its nodes, run to its end.  The analysis is one          *)
(* sequential computation that is never suspended: the step that is        *)
(* enabled is taken.                                                       *)
(***************************************************************************)
Analyze == CollectNames \/ CollectImpls \/ CollectUses \/ ComputeTypes \/ AnalyzeCall \/ EvalBlock

SpecAnalysis == (InitDecl \/ InitBlock) /\ [][Analyze]_vars /\ WF_vars(Analyze)

MaxUses == 2

collect_use_item(st, n, ns_id, item) ==
    LET import_ns == get_ns(st.namespaces[ns_id], item.name)
        RECURSIVE import_syms(_, _)
        import_syms(s0, todo) ==
            IF todo = {} THEN s0
            ELSE LET s == CHOOSE e \in todo : TRUE
                     ns == s0.namespaces[ns_id]
                 IN  import_syms(
                         IF get_sym(ns, s.name) # NoEntry
                         THEN error(s0, n, "NameIsAlreadyDefined", ns_id, s.name)
                         ELSE IF s.err THEN s0
                         ELSE [s0 EXCEPT !.namespaces[ns_id] = ns_add_sym(ns, s.name, s.sym)],
                         todo \ {s})
        imported == import_syms(st, st.namespaces[import_ns].syms)
        nss == st.namespaces[import_ns].nss
    IN  IF import_ns = 0 THEN error(st, n, "NamespaceNotFound", ns_id, item.name)
        ELSE [imported EXCEPT !.namespaces[ns_id].nss =
                 {e \in @ : \A o \in nss : o.name # e.name} \cup nss]

\* The importing namespace 1 with the modules m (2) and k (3) declared in it; the
\* symbols 1 and 2 are its own, m exports symbol 1 or its own 3 and 4, k its own 5.
UseNamespaces ==
    {<<[path |-> <<>>, syms |-> own,
        nss |-> {[name |-> "m", ns |-> 2], [name |-> "k", ns |-> 3]}],
       [path |-> <<"m">>, syms |-> ms, nss |-> {}],
       [path |-> <<"k">>, syms |-> ks, nss |-> {}]>> :
        own \in SUBSET {[name |-> "A", sym |-> 1, err |-> FALSE],
                        [name |-> "B", sym |-> 2, err |-> FALSE]},
        ms \in {{}, {[name |-> "A", sym |-> 1, err |-> FALSE]},
                {[name |-> "A", sym |-> 3, err |-> FALSE]},
                {[name |-> "A", sym |-> 3, err |-> FALSE], [name |-> "B", sym |-> 4, err |-> FALSE]},
                {[name |-> "B", sym |-> 0, err |-> TRUE]}},
        ks \in {{}, {[name |-> "A", sym |-> 5, err |-> FALSE]},
                {[name |-> "C", sym |-> 5, err |-> FALSE]}}}

InitUse ==
    /\ pc = "collect_uses"
    /\ body \in SeqsUpTo({Decl("Using", name, <<>>, <<>>) : name \in {"m", "k", "zz"}}, MaxUses)
    /\ body # <<>>
    /\ namespaces \in UseNamespaces
    /\ syms = <<>>
    /\ tvars = NoTVars
    /\ node = NoNode
    /\ result = NoResult
    /\ visited = <<>>
    /\ errors = <<>>
    /\ func_calls = <<>>
    /\ string_map = with_capacity.sm
    /\ gen_map = GenMapDefault
    /\ handles = [live |-> {}, dead |-> {}]
    /\ heap = WallocNew
    /\ live = {}
    /\ input_manager = InputManagerNew

\* collect_uses: the next `use` of the block.
CollectUse ==
    /\ pc = "collect_uses"
    /\ Len(visited) < Len(body)
    /\ body[Len(visited) + 1].kind = "Using"
    /\ LET i == Len(visited) + 1
           st == collect_use_item(Checker(namespaces, syms, errors, ""), <<i>>, BlockNs, body[i])
       IN  /\ namespaces' = st.namespaces
           /\ errors' = st.errors
           /\ visited' = Append(visited, <<i>>)
           /\ pc' = IF i = Len(body) THEN "compute_types" ELSE pc
    /\ UNCHANGED <<body, syms, tvars, node, result, func_calls, string_map, gen_map, handles, heap, live, input_manager>>

SpecUse == InitUse /\ [][CollectUse]_vars

\* The item of the step, its target namespace, and the names the step reports.
UseTarget == get_ns(namespaces[BlockNs], body[Len(visited) + 1].name)
UseReported ==
    {errors'[j].name[2] : j \in {j \in DOMAIN errors' :
                                    j > Len(errors) /\ errors'[j].kind = "NameIsAlreadyDefined"}}

\* The frame of a wildcard import: a name bound before keeps its binding, any
\* other name of the target becomes bound to the target's symbol.
UseKeepsBindings ==
    [][(pc = "collect_uses" /\ UseTarget # 0) =>
          \A t \in namespaces[UseTarget].syms :
              LET old == get_sym(namespaces[BlockNs], t.name)
              IN  /\ old # NoEntry => get_sym(namespaces'[BlockNs], t.name) = old
                  /\ (old = NoEntry /\ ~t.err) =>
                        get_sym(namespaces'[BlockNs], t.name).sym = t.sym]_vars

\* C22: a wildcard import keeps every binding of the importing namespace, binds
\* the other names of the target to the target's symbols, and reports
\* NameIsAlreadyDefined for a name exactly when the name was bound to a different
\* symbol than the one imported.
C22_WildcardImport ==
    [][(pc = "collect_uses" /\ UseTarget # 0) =>
          /\ \A t \in namespaces[UseTarget].syms :
                LET old == get_sym(namespaces[BlockNs], t.name)
                IN  /\ old # NoEntry => get_sym(namespaces'[BlockNs], t.name) = old
                    /\ (old = NoEntry /\ ~t.err) =>
                          get_sym(namespaces'[BlockNs], t.name).sym = t.sym
          /\ UseReported =
                {t.name : t \in {t \in namespaces[UseTarget].syms :
                    /\ get_sym(namespaces[BlockNs], t.name) # NoEntry
                    /\ get_sym(namespaces[BlockNs], t.name).sym # t.sym}}]_vars


(***************************************************************************)
(* GenMap: a slot is its generation and either an item (Occupied) or the   *)
(* next slot of the freelist (Empty).  A Handle is a generation and the    *)
(* index of a slot, counted from 0.                                        *)
(***************************************************************************)
MaxSlots == 2
MaxGen == 2

Handle(gen, idx) == [gen |-> gen, idx |-> idx]
Occupied(gen, itm) == [gen |-> gen, occupied |-> TRUE, itm |-> itm, next_free |-> <<>>]
Empty(gen, next_free) == [gen |-> gen, occupied |-> FALSE, itm |-> "", next_free |-> next_free]

\* Variant of insert (below) that leaves the reused slot at the head of the
\* freelist.
GenMap_insert_KeepHead(m, itm) ==
    IF m.freelist_head # <<>> /\ ~m.slots[m.freelist_head[1] + 1].occupied
    THEN LET i == m.freelist_head[1]
         IN  [m |-> [m EXCEPT !.count = @ + 1,
                              !.slots[i + 1] = Occupied(m.slots[i + 1].gen + 1, itm)],
              h |-> Handle(m.slots[i + 1].gen + 1, i), panic |-> FALSE]
    ELSE [m |-> [m EXCEPT !.count = @ + 1, !.slots = Append(@, Occupied(1, itm))],
          h |-> Handle(1, Len(m.slots)), panic |-> FALSE]

\* GenMap::insert: the head of the freelist is reused with the next generation,
\* else a slot of generation 1 is pushed.  The counters are usize and far from
\* their overflow here.
GenMap_insert(m, itm) ==
    IF m.freelist_head # <<>>
    THEN LET i == m.freelist_head[1]
         IN  IF i >= Len(m.slots) \/ m.slots[i + 1].occupied
             THEN [m |-> [m EXCEPT !.count = @ + 1], h |-> Handle(0, i), panic |-> TRUE]
             ELSE [m |-> [m EXCEPT !.count = @ + 1,
                                   !.freelist_head = m.slots[i + 1].next_free,
                                   !.slots[i + 1] = Occupied(m.slots[i + 1].gen + 1, itm)],
                   h |-> Handle(m.slots[i + 1].gen + 1, i), panic |-> FALSE]
    ELSE [m |-> [m EXCEPT !.count = @ + 1, !.slots = Append(@, Occupied(1, itm))],
          h |-> Handle(1, Len(m.slots)), panic |-> FALSE]

\* Variant of get (below) that does not compare generations.
GenMap_get_AnyGen(m, h) ==
    IF h.idx >= Len(m.slots) THEN <<>>
    ELSE IF ~m.slots[h.idx + 1].occupied THEN <<>>
    ELSE <<m.slots[h.idx + 1].itm>>

\* GenMap::get and GenMap::get_mut: the item, or None.
GenMap_get(m, h) ==
    IF h.idx >= Len(m.slots) THEN <<>>
    ELSE IF ~m.slots[h.idx + 1].occupied THEN <<>>
    ELSE IF m.slots[h.idx + 1].gen # h.gen THEN <<>>
    ELSE <<m.slots[h.idx + 1].itm>>

\* Variant of remove (below) that unlinks the slot before it looks at it.
GenMap_remove_Eager(m, h) ==
    IF h.idx >= Len(m.slots) THEN [m |-> m, ret |-> <<>>]
    ELSE IF ~m.slots[h.idx + 1].occupied \/ m.slots[h.idx + 1].gen # h.gen
    THEN [m |-> [m EXCEPT !.freelist_head = <<h.idx>>], ret |-> <<>>]
    ELSE [m |-> [m EXCEPT !.count = @ - 1,
                          !.slots[h.idx + 1] = Empty(m.slots[h.idx + 1].gen, m.freelist_head),
                          !.freelist_head = <<h.idx>>],
          ret |-> <<m.slots[h.idx + 1].itm>>]

\* GenMap::remove: None for a stale handle; else the slot becomes the head of the
\* freelist, keeping its generation, and the item is returned.
GenMap_remove(m, h) ==
    IF h.idx >= Len(m.slots) THEN [m |-> m, ret |-> <<>>]
    ELSE IF ~m.slots[h.idx + 1].occupied THEN [m |-> m, ret |-> <<>>]
    ELSE IF m.slots[h.idx + 1].gen # h.gen THEN [m |-> m, ret |-> <<>>]
    ELSE [m |-> [m EXCEPT !.count = @ - 1,
                          !.slots[h.idx + 1] = Empty(m.slots[h.idx + 1].gen, m.freelist_head),
                          !.freelist_head = <<h.idx>>],
          ret |-> <<m.slots[h.idx + 1].itm>>]

\* GenMap::freelist_len walks the freelist: the slots it visits, in order, and
\* whether it met an occupied slot (a panic).  `fuel` bounds the walk of a cycle.
RECURSIVE freelist(_, _, _, _)
freelist(m, head, seen, fuel) ==
    IF head = <<>> THEN [slots |-> seen, panic |-> FALSE, ends |-> TRUE]
    ELSE IF fuel = 0 THEN [slots |-> seen, panic |-> FALSE, ends |-> FALSE]
    ELSE IF head[1] >= Len(m.slots) \/ m.slots[head[1] + 1].occupied
    THEN [slots |-> seen, panic |-> TRUE, ends |-> TRUE]
    ELSE freelist(m, m.slots[head[1] + 1].next_free, Append(seen, head[1]), fuel - 1)

Items == {"a", "b"}
\* The handles a client can present: those it was given, and others.
Handles == [gen : 1 .. MaxGen + 1, idx : 0 .. MaxSlots]

InitGenMap ==
    /\ pc = "run"
    /\ gen_map = GenMapDefault
    /\ handles = [live |-> {}, dead |-> {}]
    /\ result = [call |-> "default", h |-> Handle(0, 0), ret |-> <<>>]
    /\ ExprIdle
    /\ tvars = <<>>
    /\ node = NoNode
    /\ visited = <<>>
    /\ errors = <<>>
    /\ func_calls = <<>>
    /\ string_map = with_capacity.sm
    /\ heap = WallocNew
    /\ live = {}
    /\ input_manager = InputManagerNew

GmInsert ==
    /\ pc = "run"
    /\ \E itm \in Items :
          LET r == GenMap_insert(gen_map, itm)
          IN  /\ IF gen_map.freelist_head = <<>> THEN Len(gen_map.slots) < MaxSlots
                 ELSE r.h.gen <= MaxGen
              /\ gen_map' = r.m
              /\ pc' = IF r.panic THEN "panic" ELSE pc
              /\ handles' = IF r.panic THEN handles
                            ELSE [handles EXCEPT !.live = @ \cup {[h |-> r.h, itm |-> itm]}]
              /\ result' = [call |-> "insert", h |-> r.h, ret |-> <<itm>>]
    /\ UNCHANGED <<body, namespaces, syms, tvars, node, visited, errors, func_calls,
                   string_map, heap, live, input_manager>>

GmGet ==
    /\ pc = "run"
    /\ \E h \in Handles :
          result' = [call |-> "get", h |-> h, ret |-> GenMap_get(gen_map, h)]
    /\ UNCHANGED <<pc, body, namespaces, syms, tvars, node, visited, errors, func_calls,
                   string_map, gen_map, handles, heap, live, input_manager>>

GmRemove ==
    /\ pc = "run"
    /\ \E h \in Handles :
          LET r == GenMap_remove(gen_map, h)
          IN  /\ gen_map' = r.m
              /\ handles' = IF r.ret = <<>> THEN handles
                            ELSE [live |-> {p \in handles.live : p.h # h},
                                  dead |-> handles.dead \cup {h}]
              /\ result' = [call |-> "remove", h |-> h, ret |-> r.ret]
    /\ UNCHANGED <<pc, body, namespaces, syms, tvars, node, visited, errors, func_calls,
                   string_map, heap, live, input_manager>>

SpecGenMap == InitGenMap /\ [][GmInsert \/ GmGet \/ GmRemove]_vars

\* C23: a handle whose item was removed resolves to nothing from then on - get,
\* get_mut and remove return None for it in every later state - also when its
\* slot has been reused; a handle that is held resolves to its own item, and is
\* none of the removed ones.
C23_StaleForever ==
    /\ \A h \in handles.dead :
          /\ GenMap_get(gen_map, h) = <<>>
          /\ GenMap_remove(gen_map, h).ret = <<>>
          /\ \A p \in handles.live : p.h # h
    /\ \A p \in handles.live : GenMap_get(gen_map, p.h) = <<p.itm>>

\* "a" was inserted and removed, "b" inserted into the same slot: the old handle
\* is stale and the new one, of the next generation, resolves to "b".
C23_Witness ==
    /\ Handle(1, 0) \in handles.dead
    /\ [h |-> Handle(2, 0), itm |-> "b"] \in handles.live
    /\ result = [call |-> "get", h |-> Handle(1, 0), ret |-> <<>>]
    /\ GenMap_get(gen_map, Handle(2, 0)) = <<"b">>


\* The slots by their content, and the walk of the freelist from its head.
OccupiedSlots == {i \in 0 .. Len(gen_map.slots) - 1 : gen_map.slots[i + 1].occupied}
EmptySlots == {i \in 0 .. Len(gen_map.slots) - 1 : ~gen_map.slots[i + 1].occupied}
FreelistWalk == freelist(gen_map, gen_map.freelist_head, <<>>, MaxSlots + 2)

\* C24: count() is the number of Occupied slots and the number of handles held;
\* the walk of the freelist ends, meets no Occupied slot and visits each Empty
\* slot exactly once, so freelist_len() is the number of Empty slots and
\* count() + freelist_len() the number of slots.
C24_Counts ==
    pc = "run" =>
        /\ gen_map.count = Cardinality(OccupiedSlots)
        /\ gen_map.count = Cardinality({p.h : p \in handles.live})
        /\ Cardinality(handles.live) = gen_map.count
        /\ FreelistWalk.ends /\ ~FreelistWalk.panic
        /\ Range(FreelistWalk.slots) = EmptySlots
        /\ Len(FreelistWalk.slots) = Cardinality(EmptySlots)
        /\ gen_map.count + Len(FreelistWalk.slots) = Len(gen_map.slots)

\* Two items inserted and both removed, the second slot first: the freelist runs
\* through both slots and nothing is counted.
C24_Witness ==
    /\ pc = "run" /\ Len(gen_map.slots) = 2 /\ gen_map.count = 0
    /\ FreelistWalk.slots = <<0, 1>>
    /\ handles.live = {} /\ Cardinality(handles.dead) = 2

\* C25: remove with a handle that is not held - its item was removed, its
\* generation is not the slot's, or its index is out of range - returns None and
\* changes nothing: count(), the freelist and every slot are as before, and every
\* handle held resolves to its item.
C25_StaleRemove ==
    [][(result'.call = "remove" /\ \A p \in handles.live : p.h # result'.h) =>
          /\ result'.ret = <<>>
          /\ gen_map' = gen_map
          /\ handles' = handles
          /\ \A p \in handles.live : GenMap_get(gen_map', p.h) = <<p.itm>>]_vars

\* "a" and "b" inserted, "a" removed, then its handle presented to remove again:
\* None, with "b" still there and the slot of "a" alone in the freelist.
C25_Witness ==
    /\ pc = "run"
    /\ result = [call |-> "remove", h |-> Handle(1, 0), ret |-> <<>>]
    /\ Handle(1, 0) \in handles.dead
    /\ handles.live = {[h |-> Handle(1, 1), itm |-> "b"]}
    /\ gen_map.count = 1 /\ gen_map.freelist_head = <<0>>


(***************************************************************************)
(* walloc / free: the allocator of the runtime.  Addresses and sizes are   *)
(* in bytes as in the source; heap.memory is the memory word by word, a    *)
(* Block being the word `next`, the word `used_n_size` (the size with the  *)
(* used flag in bit 0) and the data from its third word on.  Address 0 is  *)
(* the null pointer and, PTR starting at 0, also the first block handed    *)
(* out.  `live` is the client's record of its allocations: the pointer     *)
(* walloc returned and the aligned size asked for; the client stores the   *)
(* pointer's own value in every word it asked for.                         *)
(***************************************************************************)
W == 8
PAGE_SIZE == 26
MaxPages == 1
MaxOps == 7
RequestSizes == {5, 40, 72}

align_to(n, alignment) == ((n + alignment - 1) \div alignment) * alignment
alloc_size(size) == size + 3 * W - W
get_header(ptr) == ptr + W - 3 * W

\* A deref of an address outside the memory is undefined behaviour: the
\* handlers stop in "ub" before it.
InMem(h, a) == a >= 0 /\ a % W = 0 /\ a \div W < Len(h.memory)
rd(h, a) == h.memory[a \div W + 1]
wr(h, a, v) == [h EXCEPT !.memory[a \div W + 1] = v]
Block_next(h, b) == rd(h, b)
Block_size(h, b) == rd(h, b + W) - (rd(h, b + W) % 2)
Block_is_used(h, b) == rd(h, b + W) % 2 = 1
Block_set_used(h, b, u) == wr(h, b + W, Block_size(h, b) + IF u THEN 1 ELSE 0)

\* The bucket of a size; the free lists are extended with null heads up to it.
\* A size below one word underflows (bucket < 0 here): a panic.
get_bucket(h, size) ==
    LET bucket == size \div W - 1
    IN  [bucket |-> bucket,
         h |-> IF Len(h.free_lists) <= bucket
               THEN [h EXCEPT !.free_lists =
                        @ \o [i \in 1 .. bucket + 1 - Len(h.free_lists) |-> 0]]
               ELSE h]

\* A free block larger than the request by more than a Block is cut in two:
\* the remainder becomes the head of the free list of its size, with the size
\* of the REQUEST in its header.
try_split(h, ptr, size) ==
    IF Block_size(h, ptr) > size + 3 * W
    THEN LET nptr == ptr + alloc_size(size)
             nsize == Block_size(h, ptr) - alloc_size(size)
             b == get_bucket(h, nsize)
         IN  IF ~(InMem(h, nptr) /\ InMem(h, nptr + 2 * W)) THEN [h |-> h, out |-> "ub"]
             ELSE LET h1 == wr(wr(wr(b.h, nptr, b.h.free_lists[b.bucket + 1]),
                                  nptr + W, size), nptr + 2 * W, 0)
                      h2 == [h1 EXCEPT !.free_lists[b.bucket + 1] = nptr]
                  IN  [h |-> wr(h2, ptr + W, size), out |-> "ok"]
    ELSE [h |-> h, out |-> "ok"]

\* The memory grows by a page while the request does not fit below its end;
\* a memory of MaxPages pages does not grow (grow returns false: a panic).
RECURSIVE request_memory(_, _)
request_memory(h, size) ==
    IF h.PTR + size >= W * Len(h.memory)
    THEN IF Len(h.memory) >= PAGE_SIZE * MaxPages THEN [h |-> h, ptr |-> 0, out |-> "panic"]
         ELSE request_memory([h EXCEPT !.memory = @ \o [i \in 1 .. PAGE_SIZE |-> 0]], size)
    ELSE [h |-> [h EXCEPT !.PTR = @ + size], ptr |-> h.PTR, out |-> "ok"]

\* free: a header that is not marked used absorbs the sizes of the blocks
\* behind it; the block then becomes the head of the free list of its size
\* (its `next` is left as it is).
free(h0, ptr) ==
    LET ptrb == get_header(ptr)
        RECURSIVE loop(_, _)
        loop(h, curr) ==
            IF curr = 0 THEN [h |-> h, out |-> "ok"]
            ELSE IF ~(InMem(h, curr) /\ InMem(h, curr + W)) THEN [h |-> h, out |-> "ub"]
            ELSE IF ~Block_is_used(h, curr)
            THEN LET size == alloc_size(Block_size(h, curr))
                     h1 == wr(h, ptrb + W, rd(h, ptrb + W) + size)
                 IN  IF curr + size > Len(h.memory) \div PAGE_SIZE
                     THEN [h |-> h1, out |-> "ok"]
                     ELSE loop(h1, curr + size)
            ELSE [h |-> h, out |-> "ok"]
        l == loop(h0, ptrb)
    IN  IF l.out # "ok" THEN l
        ELSE LET h2 == Block_set_used(l.h, ptrb, FALSE)
                 b == get_bucket(h2, Block_size(h2, ptrb))
             IN  IF b.bucket < 0 THEN [h |-> h2, out |-> "panic"]
                 ELSE [h |-> [b.h EXCEPT !.free_lists[b.bucket + 1] = ptrb], out |-> "ok"]

\* `result` holds the running call with the locals of find_block, and the
\* number of calls made so far.
Idle(call, ptr, calls) ==
    [call |-> call, size |-> 0, bucket |-> 0, left |-> 0, curr |-> 0, ptr |-> ptr,
     calls |-> calls]

InitWalloc ==
    /\ pc = "run"
    /\ heap = WallocNew
    /\ live = {}
    /\ result = Idle("new", 0, 0)
    /\ ExprIdle
    /\ tvars = <<>>
    /\ node = NoNode
    /\ visited = <<>>
    /\ errors = <<>>
    /\ func_calls = <<>>
    /\ string_map = with_capacity.sm
    /\ gen_map = GenMapDefault
    /\ handles = [live |-> {}, dead |-> {}]
    /\ input_manager = InputManagerNew

\* walloc is entered: the size is aligned and find_block takes the bucket of the
\* size.
Walloc ==
    /\ pc = "run"
    /\ result.calls < MaxOps
    /\ \E n \in RequestSizes :
          LET size == align_to(n, W)
              b == get_bucket(heap, size)
          IN  /\ heap' = b.h
              /\ result' = [call |-> "walloc", size |-> size, bucket |-> b.bucket,
                            left |-> Len(b.h.free_lists), curr |-> 0, ptr |-> 0,
                            calls |-> result.calls + 1]
    /\ pc' = "find_block"
    /\ UNCHANGED <<body, namespaces, syms, tvars, node, visited, errors, func_calls,
                   string_map, gen_map, handles, live, input_manager>>

\* walloc returns the data pointer of the block, marked used, and the client
\* stores into the words it asked for.
Return(h, blk) ==
    LET data == blk + 2 * W
        h1 == Block_set_used(h, blk, TRUE)
    IN  IF data + result.size > W * Len(h.memory)
        THEN /\ pc' = "ub"
             /\ heap' = h1
             /\ UNCHANGED <<result, live>>
        ELSE /\ pc' = "run"
             /\ heap' = [h1 EXCEPT !.memory =
                            [i \in DOMAIN @ |->
                                IF (i - 1) * W >= data /\ (i - 1) * W < data + result.size
                                THEN data ELSE @[i]]]
             /\ result' = Idle("walloc", data, result.calls)
             /\ live' = live \cup {[ptr |-> data, size |-> result.size]}

\* find_block, the head of the outer loop: the next free list is taken up, or,
\* all lists having been looked at, nothing was found and walloc requests
\* fresh memory.
find_block_bucket ==
    /\ pc = "find_block"
    /\ IF result.left # 0
       THEN /\ pc' = "find_block_curr"
            /\ result' = [result EXCEPT !.curr = heap.free_lists[result.bucket + 1],
                                        !.left = @ - 1]
            /\ UNCHANGED <<heap, live>>
       ELSE LET r == request_memory(heap, alloc_size(result.size))
            IN  IF r.out = "ok" THEN Return(wr(r.h, r.ptr + W, result.size), r.ptr)
                ELSE /\ pc' = r.out
                     /\ UNCHANGED <<heap, result, live>>
    /\ UNCHANGED <<body, namespaces, syms, tvars, node, visited, errors, func_calls,
                   string_map, gen_map, handles, input_manager>>

\* find_block, one round of the inner loop on the block `curr`.  A block that is
\* used or too small and has no successor is `continue`d with curr as it is.
find_block_curr ==
    /\ pc = "find_block_curr"
    /\ LET curr == result.curr
       IN  IF curr = 0
           THEN /\ pc' = "find_block"
                /\ result' = [result EXCEPT !.bucket = (@ + 1) % Len(heap.free_lists)]
                /\ UNCHANGED <<heap, live>>
           ELSE IF ~(InMem(heap, curr) /\ InMem(heap, curr + W))
           THEN /\ pc' = "ub"
                /\ UNCHANGED <<heap, live, result>>
           ELSE IF Block_is_used(heap, curr) \/ Block_size(heap, curr) < result.size
           THEN /\ result' = IF Block_next(heap, curr) = 0 THEN result
                             ELSE [result EXCEPT !.curr = Block_next(heap, curr)]
                /\ UNCHANGED <<pc, heap, live>>
           ELSE LET b == get_bucket(heap, result.size)
                    h1 == [b.h EXCEPT !.free_lists[b.bucket + 1] = Block_next(heap, curr)]
                    s == try_split(h1, curr, result.size)
                IN  IF s.out = "ok" THEN Return(s.h, curr)
                    ELSE /\ pc' = s.out
                         /\ heap' = s.h
                         /\ UNCHANGED <<result, live>>
    /\ UNCHANGED <<body, namespaces, syms, tvars, node, visited, errors, func_calls,
                   string_map, gen_map, handles, input_manager>>

\* free of a pointer the client holds.
Free ==
    /\ pc = "run"
    /\ result.calls < MaxOps
    /\ \E a \in live :
          LET r == free(heap, a.ptr)
          IN  /\ heap' = r.h
              /\ pc' = IF r.out = "ok" THEN "run" ELSE r.out
              /\ live' = live \ {a}
              /\ result' = Idle("free", a.ptr, result.calls + 1)
    /\ UNCHANGED <<body, namespaces, syms, tvars, node, visited, errors, func_calls,
                   string_map, gen_map, handles, input_manager>>

\* A call that was entered keeps executing.
SpecWalloc ==
    /\ InitWalloc
    /\ [][Walloc \/ find_block_bucket \/ find_block_curr \/ Free]_vars
    /\ WF_vars(find_block_bucket)
    /\ WF_vars(find_block_curr)

InCall == pc \in {"find_block", "find_block_curr"}
InCallOrIdle == pc = "run" \/ InCall
Region(a) == {a.ptr + W * i : i \in 0 .. a.size \div W - 1}

\* C26: for any sequence of walloc and free calls the data regions of two live
\* blocks never overlap, each live block's header is marked used with a size of
\* at least the aligned request, and the value stored in a live allocation is
\* read back unchanged after any later walloc or free of other blocks.
C26_LiveBlocks ==
    InCallOrIdle =>
        /\ \A a, b \in live : a # b => Region(a) \cap Region(b) = {}
        /\ \A a \in live :
              /\ Block_is_used(heap, get_header(a.ptr))
              /\ Block_size(heap, get_header(a.ptr)) >= a.size
              /\ \A p \in Region(a) : rd(heap, p) = a.ptr

\* C29: every call to walloc and every call to free returns after finitely
\* many steps.
C29_Returns == InCall ~> ~InCall


(***************************************************************************)
(* Stmt::Variable and Stmt::VariableTuple: the declaration of one name, or *)
(* of the names of a tuple pattern, from an evaluated right-hand side.     *)
(* A hint is <<>> or one record [ok, ty]: what dt_to_ty makes of the       *)
(* written type (ok = FALSE: it does not resolve).  Both return the scope  *)
(* seen by the following statements.                                       *)
(***************************************************************************)
MaxNames == 2
StmtOut(scope, errs, tv) == [scope |-> scope, errors |-> errs, tvars |-> tv]
\* The kind of the symbol of a type: the containers are symbols of the table.
KindOf(s, t) == IF s = "sym" THEN syms[t.v].kind ELSE "Primitive"

\* Stmt::Variable.  A value of type ERROR declares the name with type ERROR and
\* reports nothing; a hint that does not resolve declares it with ERROR and
\* reports the error of dt_to_ty (here NamespaceNotFound); a hint that differs from the value's type declares it with the hint's type.
Variable(tv, scope, n, rhs_anal) ==
    LET place_dummy == <<Scope("VariableScope", n.name, ERROR, n.is_mut)>> \o scope
        rs == sym(tv, rhs_anal.ty)
        hint == n.hint[1]
        same == eq(rs.tvars, rhs_anal.ty, hint.ty)
    IN  IF rs.ok /\ rs.s = "err" THEN StmtOut(place_dummy, <<>>, rs.tvars)
        ELSE IF n.hint = <<>>
        THEN StmtOut(<<Scope("VariableScope", n.name, rhs_anal.ty, n.is_mut)>> \o scope,
                      <<>>, rs.tvars)
        ELSE IF ~hint.ok
        THEN StmtOut(place_dummy, <<Diag(Self, "NamespaceNotFound", "")>>, rs.tvars)
        ELSE IF ~same.ok
        THEN StmtOut(<<Scope("VariableScope", n.name, hint.ty, n.is_mut)>> \o scope,
                      <<Diag(Self, "VariableValueAndHintDiffer", "")>>, same.tvars)
        ELSE StmtOut(<<Scope("VariableScope", n.name, hint.ty, n.is_mut)>> \o scope,
                      <<>>, same.tvars)

\* Stmt::VariableTuple.  A value that is no tuple declares every name with type
\* ERROR (the last name innermost); for a tuple, whatever the number of its
\* fields, nothing is done: the hint is not looked at and the scope is as before.
VariableTuple(tv, scope, n, rhs_anal) ==
    LET place_dummy ==
            [j \in DOMAIN n.names |->
                Scope("VariableScope", n.names[Len(n.names) + 1 - j].name, ERROR,
                      n.names[Len(n.names) + 1 - j].is_mut)] \o scope
        rs == sym(tv, rhs_anal.ty)
        ty == instance(tv, rhs_anal.ty)
    IN  IF ~rs.ok THEN StmtOut(place_dummy, <<Diag(Self, "UnresolvedVar", "")>>, rs.tvars)
        ELSE IF KindOf(rs.s, ty) \notin {"Tuple", "Struct", "Enum"}
        THEN StmtOut(place_dummy, <<Diag(Self, "VariableValueNotTuple", "")>>, rs.tvars)
        ELSE IF KindOf(rs.s, ty) # "Tuple"
        THEN StmtOut(place_dummy, <<Diag(Self, "VariableValueNotTuple", "")>>, rs.tvars)
        ELSE StmtOut(scope, <<>>, rs.tvars)

\* The symbols of the statement: the tuple (bool, str) and a struct.
VariableSyms ==
    <<[Symbol(<<"tuple">>, 1, <<0>>) EXCEPT !.kind = "Tuple", !.fills = 1,
                                            !.fields = <<BOOL, STR>>],
      [Symbol(<<"S">>, 1, <<0>>) EXCEPT !.kind = "Struct", !.fills = 1,
                                        !.fields = <<BOOL>>]>>
VariableTypes == {BOOL, STR, ERROR, SymTy(1), SymTy(2), Var(1)}
Hints == {<<>>} \cup {<<[ok |-> TRUE, ty |-> t]>> : t \in {BOOL, STR, SymTy(1)}}
         \cup {<<[ok |-> FALSE, ty |-> ERROR]>>}
Patterns ==
    {p \in SeqsUpTo([name : {"x", "y"}, is_mut : BOOLEAN], MaxNames) :
        /\ p # <<>>
        /\ \A i, j \in DOMAIN p : p[i].name = p[j].name => i = j}

\* A block `let ... = rhs` followed by a use of each declared name; `outer` is
\* whether the block is entered with a variable x in scope.  node holds the
\* statement with its evaluated right-hand side.
InitVariable ==
    /\ pc = "stmt"
    /\ namespaces = <<Namespace(<<>>)>>
    /\ syms = VariableSyms
    /\ body = <<>>
    /\ tvars = <<[sub |-> "none", val |-> Unset]>>
    /\ \E rhs \in VariableTypes, hint \in Hints, outer \in BOOLEAN :
          \/ \E is_mut \in BOOLEAN :
                node = [kind |-> "Variable", names |-> <<[name |-> "x", is_mut |-> is_mut]>>,
                        hint |-> hint, rhs |-> AnalysisResult(rhs, TRUE), outer |-> outer]
          \/ \E names \in Patterns :
                node = [kind |-> "VariableTuple", names |-> names,
                        hint |-> hint, rhs |-> AnalysisResult(rhs, TRUE), outer |-> outer]
    /\ result = NoResult
    /\ visited = <<>>
    /\ errors = <<>>
    /\ func_calls = <<>>
    /\ string_map = with_capacity.sm
    /\ gen_map = GenMapDefault
    /\ handles = [live |-> {}, dead |-> {}]
    /\ heap = WallocNew
    /\ live = {}
    /\ input_manager = InputManagerNew

OuterScope == IF node.outer THEN <<Scope("VariableScope", "x", STR, FALSE)>> ELSE <<>>

\* The statement, then the following statements of the block: one use of each
\* declared name, in the scope the statement left.  visited holds the scope
\* marker each use found.
EvalVariable ==
    /\ pc = "stmt"
    /\ LET d == IF node.kind = "Variable"
                THEN Variable(tvars, OuterScope,
                              [name |-> node.names[1].name, is_mut |-> node.names[1].is_mut,
                               hint |-> node.hint], node.rhs)
                ELSE VariableTuple(tvars, OuterScope, node, node.rhs)
           found == [j \in DOMAIN node.names |->
                        find_scope(d.scope, "VariableScope", node.names[j].name)]
       IN  /\ tvars' = d.tvars
           /\ visited' = found
           /\ errors' = d.errors \o
                 LET missing == SelectSeq([j \in DOMAIN node.names |-> j],
                                          LAMBDA j : found[j] = NoScope)
                 IN  [k \in DOMAIN missing |->
                         Diag(Self, "VariableNotFound", node.names[missing[k]].name)]
           /\ pc' = "done"
    /\ UNCHANGED <<body, namespaces, syms, node, result, func_calls, string_map, gen_map,
                   handles, heap, live, input_manager>>

SpecVariable == InitVariable /\ [][EvalVariable]_vars

\* The statement type-checks: it reported nothing and its value is not ERROR.
TypeChecks == pc = "done" /\ ~is_err(tvars, node.rhs.ty)
              /\ \A i \in DOMAIN errors : errors[i].kind = "VariableNotFound"

\* C28: after a variable declaration, single-name or tuple pattern, well-typed
\* or not, every declared name is bound for the following statements: with the
\* value's or hint's type, or its tuple field's type, when the statement
\* type-checks and with a fallback type otherwise; no later use of a declared
\* name reports VariableNotFound.
C28_Declared ==
    pc = "done" =>
        /\ \A i \in DOMAIN errors : errors[i].kind # "VariableNotFound"
        /\ \A j \in DOMAIN node.names :
              /\ visited[j] # NoScope
              /\ TypeChecks =>
                    IF node.kind = "Variable"
                    THEN instance(tvars, visited[j].ty)
                            = instance(tvars, IF node.hint = <<>> THEN node.rhs.ty
                                              ELSE node.hint[1].ty)
                    ELSE visited[j].ty = syms[node.rhs.ty.v].fields[j]

\* What holds of the single-name declaration: x is always bound afterwards, with
\* the value's or the hint's type when the statement type-checks.
VariableDeclared ==
    (pc = "done" /\ node.kind = "Variable") =>
        /\ visited[1] # NoScope /\ visited[1].is_mut = node.names[1].is_mut
        /\ \A i \in DOMAIN errors : errors[i].kind # "VariableNotFound"
        /\ TypeChecks => instance(tvars, visited[1].ty)
                            = instance(tvars, IF node.hint = <<>> THEN node.rhs.ty
                                              ELSE node.hint[1].ty)


(***************************************************************************)
(* Expr::Match: the type given to the binding of each arm.                 *)
(***************************************************************************)
\* The arms name every variant of the enum exactly once.
Exhaustive ==
    /\ syms.E.kind = "Enum"
    /\ Len(node.mappings) = Len(syms.E.fields)
    /\ {node.mappings[i].variant : i \in DOMAIN node.mappings}
          = {syms.E.fields[i].name : i \in DOMAIN syms.E.fields}

\* C27: in an exhaustive match the binding of each arm has the payload type of
\* the variant the arm names, in whatever order the arms are written.
C27_ArmBinding ==
    (pc = "done" /\ Exhaustive) =>
        \A i \in DOMAIN node.mappings :
            visited[i + 1].binding = PayloadOf(node.mappings[i].variant)

\* What holds: arm i is bound to the payload type of the i-th declared variant,
\* which is the variant it names when the arms are in declaration order.
ArmBindingInOrder ==
    (pc = "done" /\ Exhaustive) =>
        \A i \in DOMAIN node.mappings :
            /\ visited[i + 1].binding = syms.E.fields[i].ty
            /\ node.mappings[i].variant = syms.E.fields[i].name
                  => visited[i + 1].binding = PayloadOf(node.mappings[i].variant)


(***************************************************************************)
(* InputManager: the state of every key, and the keys whose state changed  *)
(* in the last process() call.  An event is a record [kind, key, repeat].  *)
(***************************************************************************)
MaxEvents == 2
Events ==
    [kind : {"KeyUp", "KeyDown"}, key : Keys, repeat : BOOLEAN]
    \cup {[kind |-> "MouseMove", key |-> 0, repeat |-> FALSE]}

\* Variant of process (below) that takes a repeated event like any other.
process_Repeat(im, events) ==
    LET RECURSIVE settle(_, _)
        settle(keys, i) ==
            IF i > Len(im.just_changed) THEN keys
            ELSE LET key == im.just_changed[i]
                 IN  settle(CASE keys[key] = "JustPressed" -> [keys EXCEPT ![key] = "Down"]
                              [] keys[key] = "JustReleased" -> [keys EXCEPT ![key] = "Up"]
                              [] OTHER -> keys,
                            i + 1)
        RECURSIVE apply(_, _)
        apply(m, i) ==
            IF i > Len(events) THEN m
            ELSE LET e == events[i]
                 IN  apply(CASE e.kind = "KeyUp" ->
                                  [keys |-> [m.keys EXCEPT ![e.key] = "JustReleased"],
                                   just_changed |-> Append(m.just_changed, e.key)]
                             [] e.kind = "KeyDown" ->
                                  [keys |-> [m.keys EXCEPT ![e.key] = "JustPressed"],
                                   just_changed |-> Append(m.just_changed, e.key)]
                             [] OTHER -> m,
                           i + 1)
    IN  apply([keys |-> settle(im.keys, 1), just_changed |-> <<>>], 1)

\* InputManager::process: the keys of just_changed leave their transient state,
\* just_changed is cleared, then every KeyUp and KeyDown that is no repeat sets
\* its key and pushes it.
process(im, events) ==
    LET RECURSIVE settle(_, _)
        settle(keys, i) ==
            IF i > Len(im.just_changed) THEN keys
            ELSE LET key == im.just_changed[i]
                 IN  settle(CASE keys[key] = "JustPressed" -> [keys EXCEPT ![key] = "Down"]
                              [] keys[key] = "JustReleased" -> [keys EXCEPT ![key] = "Up"]
                              [] OTHER -> keys,
                            i + 1)
        RECURSIVE apply(_, _)
        apply(m, i) ==
            IF i > Len(events) THEN m
            ELSE LET e == events[i]
                 IN  apply(CASE e.kind = "KeyUp" /\ ~e.repeat ->
                                  [keys |-> [m.keys EXCEPT ![e.key] = "JustReleased"],
                                   just_changed |-> Append(m.just_changed, e.key)]
                             [] e.kind = "KeyDown" /\ ~e.repeat ->
                                  [keys |-> [m.keys EXCEPT ![e.key] = "JustPressed"],
                                   just_changed |-> Append(m.just_changed, e.key)]
                             [] OTHER -> m,
                           i + 1)
    IN  apply([keys |-> settle(im.keys, 1), just_changed |-> <<>>], 1)

is_key_down(im, key) == im.keys[key] \in {"JustPressed", "Down"}
is_key_up(im, key) == im.keys[key] \in {"JustReleased", "Up"}
is_key_just_pressed(im, key) == im.keys[key] = "JustPressed"
is_key_just_released(im, key) == im.keys[key] = "JustReleased"

\* result holds the events of the last call and the number of calls made.
InitInputManager ==
    /\ pc = "run"
    /\ input_manager = InputManagerNew
    /\ result = [events |-> <<>>, calls |-> 0]
    /\ ExprIdle
    /\ tvars = <<>>
    /\ node = NoNode
    /\ visited = <<>>
    /\ errors = <<>>
    /\ func_calls = <<>>
    /\ string_map = with_capacity.sm
    /\ gen_map = GenMapDefault
    /\ handles = [live |-> {}, dead |-> {}]
    /\ heap = WallocNew
    /\ live = {}

\* One frame: process() on the events of the frame.  The parity of the number
\* of calls tells a call from the one before it.
Process ==
    /\ pc = "run"
    /\ \E events \in SeqsUpTo(Events, MaxEvents) :
          /\ input_manager' = process(input_manager, events)
          /\ result' = [events |-> events, calls |-> (result.calls + 1) % 2]
    /\ UNCHANGED <<pc, body, namespaces, syms, tvars, node, visited, errors, func_calls,
                   string_map, gen_map, handles, heap, live>>

SpecInputManager == InitInputManager /\ [][Process]_vars

\* The events of a call that count for a key: its KeyUp and KeyDown that are
\* no repeats.
Counting(events, key) ==
    SelectSeq(events, LAMBDA e : e.kind \in {"KeyUp", "KeyDown"} /\ e.key = key /\ ~e.repeat)
\* A key without a counting event leaves a transient state and keeps a lasting one.
Settled(state) ==
    CASE state = "JustPressed" -> "Down"
      [] state = "JustReleased" -> "Up"
      [] OTHER -> state

\* C30 as stated: a key that receives a non-repeat KeyDown during a call is
\* JustPressed after it, one that receives a non-repeat KeyUp is JustReleased,
\* and a key without a non-repeat event goes from JustPressed to Down, from
\* JustReleased to Up, and else stays as it is.
C30_Original ==
    [][\A key \in Keys :
          LET evs == Counting(result'.events, key)
          IN  /\ (\E i \in DOMAIN evs : evs[i].kind = "KeyDown")
                    => is_key_just_pressed(input_manager', key)
              /\ (\E i \in DOMAIN evs : evs[i].kind = "KeyUp")
                    => is_key_just_released(input_manager', key)
              /\ evs = <<>> => input_manager'.keys[key] = Settled(input_manager.keys[key])]_vars

\* C30: a transient key state lasts exactly one process() call.  A key whose
\* last non-repeat event of a call is a KeyDown is JustPressed after the call,
\* one whose last non-repeat event is a KeyUp is JustReleased; a key without a
\* non-repeat event in a call goes from JustPressed to Down and from
\* JustReleased to Up, and stays Down or Up otherwise.  Repeat events never
\* change a key state, and after every call each key that is JustPressed or
\* JustReleased is listed in just_changed.
C30_Transient ==
    /\ [][\A key \in Keys :
             LET evs == Counting(result'.events, key)
             IN  IF evs # <<>>
                 THEN input_manager'.keys[key] =
                         IF evs[Len(evs)].kind = "KeyDown" THEN "JustPressed" ELSE "JustReleased"
                 ELSE input_manager'.keys[key] = Settled(input_manager.keys[key])]_vars
    /\ [](/\ \A key \in Keys :
                (is_key_just_pressed(input_manager, key)
                 \/ is_key_just_released(input_manager, key))
                    => \E i \in DOMAIN input_manager.just_changed :
                          input_manager.just_changed[i] = key
          /\ \A key \in Keys :
                is_key_down(input_manager, key) # is_key_up(input_manager, key)
          /\ \A events \in SeqsUpTo(Events, MaxEvents) :
                process(input_manager, events).keys
                    = process(input_manager, SelectSeq(events, LAMBDA e : ~e.repeat)).keys)

\* Key 0 goes down and up within one call, while key 1, pressed in the call
\* before, gets only a repeat: key 0 is JustReleased, key 1 is Down.
C30_Witness ==
    /\ result.events = <<[kind |-> "KeyDown", key |-> 0, repeat |-> FALSE],
                         [kind |-> "KeyUp", key |-> 0, repeat |-> FALSE]>>
    /\ input_manager.keys[0] = "JustReleased"
    /\ input_manager.keys[1] = "Down"
    /\ input_manager.just_changed = <<0, 0>>

====
